---- MODULE Spec2Model ----
(***************************************************************************)
(* A model of the MS-DOS emulator of src/msdos.js: the FAT12 storage       *)
(* engine (class FAT12Disk), the interrupt trampoline of the 8086          *)
(* interpreter (class CPU8086) with its BIOS/DOS service handlers, and the *)
(* DOS file bridge (class DOSFileIO).                                      *)
(*                                                                         *)
(* Bytes are integers 0..255, words 0..65535.  A file name or a path       *)
(* component is the sequence of its character codes.  The bit operations   *)
(* of the source are written arithmetically (x & 0xFF is x % 256, x >> 4   *)
(* is x \div 16, an OR of disjoint bit fields is a sum).                   *)
(***************************************************************************)
EXTENDS Integers, Sequences, FiniteSets, TLC

VARIABLES
    cache,          \* FAT12Disk._cache: sector number -> 512 bytes (sectors written)
    dirty,          \* FAT12Disk._dirty: set of sector numbers
    store,          \* localStorage: sector number -> base-64 text of the sector
    fsLast,         \* the last public FAT12 operation: its arguments and result
    nops,           \* number of FAT12 operations performed so far
    running,        \* window._cpuRunning: a program session is active
    reg,            \* CPU8086.reg: the registers
    mem,            \* Memory.data: the bytes written since the session began
    halted,         \* CPU8086.halted
    haltReason,     \* CPU8086.haltReason
    waitCycles,     \* CPU8086.waitCycles
    segOverride,    \* CPU8086.segOverride: <<>> for null, <<segment>> when set
    repPrefix,      \* CPU8086.repPrefix: "" for null, "REP" or "REPNE"
    biosKeyBuffer,  \* CPU8086.biosKeyBuffer
    handles,        \* DOSFileIO.handles
    nextHandle,     \* DOSFileIO.nextHandle
    last,           \* the last step: the machine before it, what it executed
    pushed,         \* the keys pushed so far
    delivered,      \* the AX values returned by the blocking key reads so far
    wrote,          \* handle -> the bytes the program asked to write to it
    diskReadHandler,\* CPU8086.diskReadHandler: the host has installed one
    biosCursorRow,  \* CPU8086.biosCursorRow
    biosCursorCol,  \* CPU8086.biosCursorCol
    tickLoop        \* the tick callback: "first" (called by _execCOM), "frame"
                    \* (scheduled by requestAnimationFrame) or "stopped"

fsVars == <<cache, dirty, store, fsLast, nops>>

cpuVars == <<running, reg, mem, halted, haltReason, waitCycles, segOverride,
             repPrefix, biosKeyBuffer, handles, nextHandle, last, pushed,
             delivered, wrote, diskReadHandler, biosCursorRow, biosCursorCol,
             tickLoop>>

vars == <<cache, dirty, store, fsLast, nops, running, reg, mem, halted,
          haltReason, waitCycles, segOverride, repPrefix, biosKeyBuffer, handles,
          nextHandle, last, pushed, delivered, wrote, diskReadHandler,
          biosCursorRow, biosCursorCol, tickLoop>>

(***************************************************************************)
(* Bounds of the model.                                                    *)
(***************************************************************************)
MaxOps == 2
MaxKeys == 3

(***************************************************************************)
(* FAT12Disk: geometry (constructor).                                      *)
(***************************************************************************)
SECTOR_SIZE == 512
TOTAL_SECTORS == 2880
SECTORS_PER_FAT == 9
ROOT_ENTRY_COUNT == 224
SECTORS_PER_CLUSTER == 1
FAT1_START == 1
FAT2_START == 1 + SECTORS_PER_FAT
ROOT_START == 1 + SECTORS_PER_FAT * 2
ROOT_SECTORS == (ROOT_ENTRY_COUNT * 32 + SECTOR_SIZE - 1) \div SECTOR_SIZE
DATA_START == ROOT_START + ROOT_SECTORS

Max(a, b) == IF a > b THEN a ELSE b

Min(a, b) == IF a < b THEN a ELSE b

\* F(v) with v evaluated once: a local variable of the source
Let(v, F(_)) == CHOOSE r \in {F(x) : x \in {v}} : TRUE

EmptyMap == [n \in {} |-> 0]

\* the function f, tabulated (f @@ g is f extended by g)
Array(f) == f @@ EmptyMap

ZeroSector == [i \in 0..511 |-> 0]

(***************************************************************************)
(* btoa / atob on a 512-byte binary string.  The text is the sequence of   *)
(* its 684 base-64 digits (0..63), 64 standing for the padding "=".        *)
(***************************************************************************)
B64Pad == 64

Btoa(sec) ==
    [k \in 1..684 |->
        LET g  == (k - 1) \div 4
            j  == (k - 1) % 4
            b0 == sec[3 * g]
            b1 == IF 3 * g + 1 < 512 THEN sec[3 * g + 1] ELSE 0
            b2 == IF 3 * g + 2 < 512 THEN sec[3 * g + 2] ELSE 0
        IN  CASE j = 0 -> b0 \div 4
              [] j = 1 -> (b0 % 4) * 16 + (b1 \div 16)
              [] j = 2 -> IF 3 * g + 1 < 512 THEN (b1 % 16) * 4 + (b2 \div 64) ELSE B64Pad
              [] OTHER -> IF 3 * g + 2 < 512 THEN b2 % 64 ELSE B64Pad]

Atob(txt) ==
    [i \in 0..511 |->
        LET g  == i \div 3
            r  == i % 3
            c0 == txt[4 * g + 1]
            c1 == txt[4 * g + 2]
            c2 == txt[4 * g + 3]
            c3 == txt[4 * g + 4]
        IN  CASE r = 0 -> c0 * 4 + (c1 \div 16)
              [] r = 1 -> (c1 % 16) * 16 + (c2 \div 4)
              [] OTHER -> (c2 % 4) * 64 + c3]

(***************************************************************************)
(* The sector cache.  A disk value d is the record [cache, dirty, store].  *)
(* _sec(n) faults a sector in from the store on first use; a sector that   *)
(* has only been read holds exactly the decoded store value, so d.cache    *)
(* keeps the sectors that have been written and Sec reads through for the  *)
(* others.                                                                 *)
(***************************************************************************)
Sec(d, n) ==
    IF n \in DOMAIN d.cache THEN d.cache[n]
    ELSE IF n \in DOMAIN d.store THEN Atob(d.store[n])
    ELSE ZeroSector

PutSec(d, n, s) == [d EXCEPT !.cache = (n :> Array(s)) @@ @]

R8(d, s, o) == Sec(d, s)[o]

W8(d, s, o, v) ==
    [cache |-> (s :> Array([Sec(d, s) EXCEPT ![o] = v % 256])) @@ d.cache,
     dirty |-> d.dirty \cup {s},
     store |-> d.store]

R16(d, s, o) == R8(d, s, o) + 256 * R8(d, s, o + 1)

W16(d, s, o, v) ==
    Let(W8(d, s, o, v % 256), LAMBDA d1 : W8(d1, s, o + 1, (v \div 256) % 256))

R32(d, s, o) == R16(d, s, o) + 65536 * R16(d, s, o + 2)

W32(d, s, o, v) ==
    Let(W16(d, s, o, v % 65536), LAMBDA d1 : W16(d1, s, o + 2, (v \div 65536) % 65536))

\* a loop "for (i...) w8(s, o+i, bytes[i])" over n bytes
WBytes(d, s, o, bytes, n) ==
    IF n = 0 THEN d
    ELSE [cache |-> (s :> Array([i \in 0..511 |->
                                   IF i >= o /\ i < o + n
                                   THEN bytes[i - o + 1] % 256
                                   ELSE Sec(d, s)[i]])) @@ d.cache,
          dirty |-> d.dirty \cup {s},
          store |-> d.store]

Flush(d) ==
    [cache |-> d.cache,
     dirty |-> {},
     store |-> [n \in d.dirty |-> Array(Btoa(Sec(d, n)))] @@ d.store]

\* a wipe that empties the cache and leaves localStorage as it is
WipeCacheOnly(d) == [cache |-> EmptyMap, dirty |-> {}, store |-> d.store]

WipeStorage(d) == [cache |-> EmptyMap, dirty |-> {}, store |-> EmptyMap]

IsFormatted(d) == R8(d, 0, 0) = 235

OemName == <<77, 89, 68, 79, 83, 49, 46, 48>>

\* b[...] = v stores into the sector-0 array directly: cached, not marked dirty
BootBytes ==
    [i \in 0..511 |->
        CASE i = 0 -> 235 [] i = 1 -> 60 [] i = 2 -> 144
          [] i >= 3 /\ i < 11 -> OemName[i - 2]
          [] i = 13 -> 1 [] i = 16 -> 2 [] i = 21 -> 240
          [] OTHER -> 0]

FatHead(d, s) ==
    Let(W8(d, s, 0, 240), LAMBDA d1 :
    Let(W8(d1, s, 1, 255), LAMBDA d2 : W8(d2, s, 2, 255)))

\* the statements of format() in their order, each on the disk the one
\* before it left
Format(d) ==
    Let(PutSec(WipeStorage(d), 0, BootBytes), LAMBDA d0 :
    Let(W16(d0, 0, 11, 512), LAMBDA d1 :
    Let(W16(d1, 0, 14, 1), LAMBDA d2 :
    Let(W16(d2, 0, 17, 224), LAMBDA d3 :
    Let(W16(d3, 0, 19, 2880), LAMBDA d4 :
    Let(W16(d4, 0, 22, 9), LAMBDA d5 :
    Let(W16(d5, 0, 24, 18), LAMBDA d6 :
    Let(W16(d6, 0, 26, 2), LAMBDA d7 :
    Let(FatHead(d7, FAT1_START), LAMBDA d8 :
    Let(FatHead(d8, FAT2_START), LAMBDA d9 : Flush(d9)))))))))))

(***************************************************************************)
(* FAT12 entry packing.                                                    *)
(***************************************************************************)
FatOff(c) == c + (c \div 2)

\* the 16-bit word at a byte offset of the first FAT ("cur" of getFAT/setFAT)
FatWord(d, off) ==
    R8(d, FAT1_START + (off \div 512), off % 512)
      + 256 * (IF (off % 512) + 1 < 512
               THEN R8(d, FAT1_START + (off \div 512), (off % 512) + 1)
               ELSE R8(d, FAT1_START + (off \div 512) + 1, 0))

Unpack(v, c) == IF c % 2 = 1 THEN v \div 16 ELSE v % 4096

GetFAT(d, c) == Unpack(FatWord(d, FatOff(c)), c)

\* (cur & 0x000F) | (val << 4)  or  (cur & 0xF000) | (val & 0xFFF)
Pack(cur, c, val) ==
    IF c % 2 = 1 THEN (cur % 16) + val * 16
    ELSE (cur \div 4096) * 4096 + (val % 4096)

\* the two bytes of cur at offset o of sector sec, the second one in the
\* next sector when o is the last byte
PutWord(d, sec, o, cur) ==
    IF o + 1 < 512
    THEN W8(W8(d, sec, o, cur % 256), sec, o + 1, (cur \div 256) % 256)
    ELSE W8(W8(d, sec, o, cur % 256), sec + 1, 0, (cur \div 256) % 256)

\* setFAT with the second copy's write confined to one sector: the byte
\* that belongs to the next sector is not written
SetFATAtOneSector(d, off, cur) ==
    Let(PutWord(d, FAT1_START + (off \div 512), off % 512, cur), LAMBDA d1 :
        IF (off % 512) + 1 < 512
        THEN PutWord(d1, FAT2_START + (off \div 512), off % 512, cur)
        ELSE W8(d1, FAT2_START + (off \div 512), off % 512, cur % 256))

SetFATAt(d, off, cur) ==
    PutWord(PutWord(d, FAT1_START + (off \div 512), off % 512, cur),
            FAT2_START + (off \div 512), off % 512, cur)

SetFAT(d, c, val) ==
    Let(Pack(FatWord(d, FatOff(c)), c, val),
        LAMBDA cur : SetFATAt(d, FatOff(c), cur))

MaxCluster == 2 + (TOTAL_SECTORS - DATA_START) \div SECTORS_PER_CLUSTER

AllocCluster(d) ==
    IF \E c \in 2..(MaxCluster - 1) : GetFAT(d, c) = 0
    THEN CHOOSE c \in 2..(MaxCluster - 1) :
            GetFAT(d, c) = 0 /\ \A j \in 2..(c - 1) : GetFAT(d, j) # 0
    ELSE -1

FreeClusters(d) == Cardinality({c \in 2..(MaxCluster - 1) : GetFAT(d, c) = 0})

C2s(c) == DATA_START + c - 2

(***************************************************************************)
(* Directories.  A name read back from a slot, and a name given by the     *)
(* caller, are sequences of ASCII codes; toUpperCase folds a..z.           *)
(***************************************************************************)
ToUpper(c) == IF c >= 97 /\ c <= 122 THEN c - 32 ELSE c

Upper(s) == [i \in 1..Len(s) |-> ToUpper(s[i])]

SameName(a, b) == Upper(a) = Upper(b)

MinOf(S) == CHOOSE x \in S : \A y \in S : x <= y

RootSecs == [i \in 1..ROOT_SECTORS |-> ROOT_START + i - 1]

\* the characters of a name field up to the first space (0x20)
RECURSIVE ReadChars(_, _, _, _)
ReadChars(s, off, i, lim) ==
    IF i >= lim \/ s[off + i] = 32 THEN <<>>
    ELSE <<s[off + i]>> \o ReadChars(s, off, i + 1, lim)

DottedName(n, e) == IF Len(e) > 0 THEN n \o <<46>> \o e ELSE n

\* _readEntry on the bytes s of sector sec
EntryOf(s, sec, slot) ==
    [first   |-> s[slot * 32],
     name    |-> DottedName(ReadChars(s, slot * 32, 0, 8),
                            ReadChars(s, slot * 32, 8, 11)),
     attr    |-> s[slot * 32 + 11],
     cluster |-> s[slot * 32 + 26] + 256 * s[slot * 32 + 27],
     size    |-> s[slot * 32 + 28] + 256 * s[slot * 32 + 29]
                   + 65536 * (s[slot * 32 + 30] + 256 * s[slot * 32 + 31]),
     sec     |-> sec,
     slot    |-> slot]

ReadEntry(d, sec, slot) == EntryOf(Sec(d, sec), sec, slot)

\* slot k of a directory is slot k % 16 of its sector k \div 16
RECURSIVE EnumFrom(_, _, _)
EnumFrom(d, secs, k) ==
    IF k >= 16 * Len(secs) THEN <<>>
    ELSE IF R8(d, secs[(k \div 16) + 1], (k % 16) * 32) = 0 THEN <<>>
    ELSE IF R8(d, secs[(k \div 16) + 1], (k % 16) * 32) = 229
            \/ R8(d, secs[(k \div 16) + 1], (k % 16) * 32 + 11) = 15
         THEN EnumFrom(d, secs, k + 1)
         ELSE <<ReadEntry(d, secs[(k \div 16) + 1], k % 16)>>
                 \o EnumFrom(d, secs, k + 1)

EnumEntries(d, secs) == EnumFrom(d, secs, 0)

IsDirAttr(attr) == (attr \div 16) % 2 = 1

\* the clusters visited by "while (c >= 2 && c < 0xFF8) { ...; c = getFAT(c) }",
\* at most fuel of them
RECURSIVE ChainFrom(_, _, _)
ChainFrom(d, c, fuel) ==
    IF c >= 2 /\ c < 4088 /\ fuel > 0
    THEN <<c>> \o ChainFrom(d, GetFAT(d, c), fuel - 1)
    ELSE <<>>

ChainBound == 64

ChainOf(d, c) == ChainFrom(d, c, ChainBound)

SectorsOf(chain) == [i \in 1..Len(chain) |-> C2s(chain[i])]

\* entries.find(pred): the index of the first entry with the name, 0 if none
FindDir(entries, name) ==
    Let({i \in 1..Len(entries) :
            IsDirAttr(entries[i].attr) /\ SameName(entries[i].name, name)},
        LAMBDA hits : IF hits = {} THEN 0 ELSE MinOf(hits))

FindFile(entries, name) ==
    Let({i \in 1..Len(entries) :
            ~IsDirAttr(entries[i].attr) /\ SameName(entries[i].name, name)},
        LAMBDA hits : IF hits = {} THEN 0 ELSE MinOf(hits))

\* a search that compares the names as they are spelled
FindNameExact(entries, name) ==
    Let({i \in 1..Len(entries) : entries[i].name = name},
        LAMBDA hits : IF hits = {} THEN 0 ELSE MinOf(hits))

FindName(entries, name) ==
    Let({i \in 1..Len(entries) : SameName(entries[i].name, name)},
        LAMBDA hits : IF hits = {} THEN 0 ELSE MinOf(hits))

\* null is the empty sequence: the source returns null for an empty list too
RECURSIVE ResolveFrom(_, _, _)
ResolveFrom(d, secs, parts) ==
    IF Len(parts) = 0 THEN secs
    ELSE Let(EnumEntries(d, secs), LAMBDA entries :
         Let(FindDir(entries, Head(parts)), LAMBDA i :
            IF i = 0 THEN <<>>
            ELSE Let(SectorsOf(ChainOf(d, entries[i].cluster)), LAMBDA csecs :
                    IF Len(csecs) = 0 THEN <<>>
                    ELSE ResolveFrom(d, csecs, Tail(parts)))))

ResolveDirSectors(d, parts) == ResolveFrom(d, RootSecs, parts)

LastDot(name) ==
    IF \E i \in 1..Len(name) : name[i] = 46
    THEN CHOOSE i \in 1..Len(name) :
            name[i] = 46 /\ \A j \in (i + 1)..Len(name) : name[j] # 46
    ELSE 0

Slice(s, from, to) == SubSeq(Upper(s), from, Min(to, Len(s)))

BaseOf(name, dot) == IF dot > 0 THEN Slice(name, 1, dot - 1) ELSE Slice(name, 1, Len(name))

ExtOf(name, dot) == IF dot > 0 THEN Slice(name, dot + 1, Len(name)) ELSE <<>>

Padded(s, n) == [i \in 1..n |-> IF i <= Len(s) THEN s[i] ELSE 32]

\* the 11 bytes _writeName83 stores
Name83(name) ==
    Padded(BaseOf(name, LastDot(name)), 8) \o Padded(ExtOf(name, LastDot(name)), 3)

\* a rename that also stores a twelfth byte, over the attribute
WriteName83Wide(d, sec, off, name) == WBytes(d, sec, off, Name83(name) \o <<0>>, 12)

WriteName83(d, sec, off, name) == WBytes(d, sec, off, Name83(name), 11)

NoSlot == [sec |-> -1, slot |-> 0]

SlotIsFree(d, secs, k) ==
    R8(d, secs[(k \div 16) + 1], (k % 16) * 32) \in {0, 229}

\* an allocation that takes the last free slot of the directory
AllocEntryLast(d, secs) ==
    IF \E k \in 0..(16 * Len(secs) - 1) : SlotIsFree(d, secs, k)
    THEN Let(CHOOSE k \in 0..(16 * Len(secs) - 1) :
                SlotIsFree(d, secs, k)
                /\ \A j \in (k + 1)..(16 * Len(secs) - 1) : ~SlotIsFree(d, secs, j),
             LAMBDA k0 : [sec |-> secs[(k0 \div 16) + 1], slot |-> k0 % 16])
    ELSE NoSlot

AllocEntry(d, secs) ==
    IF \E k \in 0..(16 * Len(secs) - 1) : SlotIsFree(d, secs, k)
    THEN Let(CHOOSE k \in 0..(16 * Len(secs) - 1) :
                SlotIsFree(d, secs, k)
                /\ \A j \in 0..(k - 1) : ~SlotIsFree(d, secs, j),
             LAMBDA k0 : [sec |-> secs[(k0 \div 16) + 1], slot |-> k0 % 16])
    ELSE NoSlot

NoList == [found |-> FALSE, entries |-> <<>>]

ListDir(d, parts) ==
    Let(ResolveDirSectors(d, parts), LAMBDA secs :
        IF Len(secs) = 0 THEN NoList
        ELSE [found |-> TRUE,
              entries |-> SelectSeq(EnumEntries(d, secs),
                                    LAMBDA e : (e.attr \div 8) % 2 = 0)])

RECURSIVE ReadLoop(_, _, _, _)
ReadLoop(d, c, rem, fuel) ==
    IF c >= 2 /\ c < 4088 /\ fuel > 0
    THEN [i \in 1..Min(512, rem) |-> R8(d, C2s(c), i - 1)]
            \o ReadLoop(d, GetFAT(d, c), rem - Min(512, rem), fuel - 1)
    ELSE <<>>

NullFile == [found |-> FALSE, data |-> <<>>]

ReadFile(d, parts, name) ==
    Let(ResolveDirSectors(d, parts), LAMBDA secs :
        IF Len(secs) = 0 THEN NullFile
        ELSE Let(EnumEntries(d, secs), LAMBDA entries :
             Let(FindFile(entries, name), LAMBDA i :
                IF i = 0 THEN NullFile
                ELSE [found |-> TRUE,
                      data  |-> ReadLoop(d, entries[i].cluster, entries[i].size,
                                         ChainBound)])))

\* a loop that frees the first cluster of the chain only
FreeHead(d, c, fuel) == IF c >= 2 /\ c < 4088 /\ fuel > 0 THEN SetFAT(d, c, 0) ELSE d

RECURSIVE FreeChain(_, _, _)
FreeChain(d, c, fuel) ==
    IF c >= 2 /\ c < 4088 /\ fuel > 0
    THEN Let(GetFAT(d, c), LAMBDA n :
         Let(SetFAT(d, c, 0), LAMBDA d1 : FreeChain(d1, n, fuel - 1)))
    ELSE d

\* a deletion that frees the chain and leaves the slot as it is
DeleteEntryKeepSlot(d, parts, name) ==
    Let(ResolveDirSectors(d, parts), LAMBDA secs :
        IF Len(secs) = 0 THEN [d |-> d, ret |-> "false"]
        ELSE Let(EnumEntries(d, secs), LAMBDA entries :
             Let(FindName(entries, name), LAMBDA i :
                IF i = 0 THEN [d |-> d, ret |-> "false"]
                ELSE [d   |-> Flush(FreeChain(d, entries[i].cluster, ChainBound)),
                      ret |-> "true"])))

DeleteEntry(d, parts, name) ==
    Let(ResolveDirSectors(d, parts), LAMBDA secs :
        IF Len(secs) = 0 THEN [d |-> d, ret |-> "false"]
        ELSE Let(EnumEntries(d, secs), LAMBDA entries :
             Let(FindName(entries, name), LAMBDA i :
                IF i = 0 THEN [d |-> d, ret |-> "false"]
                ELSE Let(W8(d, entries[i].sec, entries[i].slot * 32, 229), LAMBDA d1 :
                        [d   |-> Flush(FreeChain(d1, entries[i].cluster, ChainBound)),
                         ret |-> "true"]))))

\* one cluster of the allocation loop: 512 zero bytes, then the data bytes
WriteCluster(d, sec, data, off) ==
    WBytes(d, sec, 0,
           [i \in 1..512 |-> IF off + i <= Len(data) THEN data[off + i] ELSE 0], 512)

\* the allocation loop of writeFile: [d, first, prev, full]
RECURSIVE WriteLoop(_, _, _, _, _)
WriteLoop(d, data, off, first, prev) ==
    IF off >= Len(data) THEN [d |-> d, first |-> first, prev |-> prev, full |-> FALSE]
    ELSE Let(AllocCluster(d), LAMBDA c :
            IF c < 0 THEN [d |-> d, first |-> first, prev |-> prev, full |-> TRUE]
            ELSE Let(WriteCluster(IF prev >= 0 THEN SetFAT(d, prev, c) ELSE d,
                                  C2s(c), data, off),
                     LAMBDA d2 : WriteLoop(d2, data, off + Min(512, Len(data) - off),
                                           IF first < 0 THEN c ELSE first, c)))

\* the 32 bytes of a fresh directory entry
DirEntryBytes(n83, attr, time, date, cluster, size) ==
    [i \in 1..32 |->
        CASE i <= 11 -> n83[i]
          [] i = 12 -> attr % 256
          [] i = 23 -> time % 256
          [] i = 24 -> (time \div 256) % 256
          [] i = 25 -> date % 256
          [] i = 26 -> (date \div 256) % 256
          [] i = 27 -> cluster % 256
          [] i = 28 -> (cluster \div 256) % 256
          [] i = 29 -> size % 256
          [] i = 30 -> (size \div 256) % 256
          [] i = 31 -> (size \div 65536) % 256
          [] i = 32 -> (size \div 16777216) % 256
          [] OTHER -> 0]

PutEntry(d, e, name, attr, time, date, cluster, size) ==
    WBytes(d, e.sec, e.slot * 32,
           DirEntryBytes(Array(Name83(name)), attr, time, date, cluster, size), 32)

NoChain(d) == [d |-> d, first |-> -1, prev |-> -1, full |-> FALSE]

WriteFile(d, parts, name, data, time, date) ==
    Let(DeleteEntry(d, parts, name).d, LAMBDA d0 :
    Let(ResolveDirSectors(d0, parts), LAMBDA secs :
        IF Len(secs) = 0 THEN [d |-> d0, ret |-> "Directory not found"]
        ELSE Let(IF Len(data) > 0 THEN WriteLoop(d0, data, 0, -1, -1)
                 ELSE NoChain(d0), LAMBDA w :
            IF w.full THEN [d |-> w.d, ret |-> "Disk full"]
            ELSE Let(IF Len(data) > 0 THEN SetFAT(w.d, w.prev, 4095) ELSE w.d,
                     LAMBDA d1 :
                 Let(AllocEntry(d1, secs), LAMBDA e :
                    IF e.sec < 0 THEN [d |-> d1, ret |-> "Directory full"]
                    ELSE [d   |-> Flush(PutEntry(d1, e, name, 32, time, date,
                                           IF w.first < 0 THEN 0 ELSE w.first,
                                           Len(data))),
                          ret |-> "ok"])))))

RenameEntry(d, parts, oldName, newName) ==
    Let(ResolveDirSectors(d, parts), LAMBDA secs :
        IF Len(secs) = 0 THEN [d |-> d, ret |-> "false"]
        ELSE Let(EnumEntries(d, secs), LAMBDA entries :
             Let(FindName(entries, oldName), LAMBDA i :
                IF i = 0 THEN [d |-> d, ret |-> "false"]
                ELSE [d   |-> Flush(WriteName83(d, entries[i].sec,
                                                entries[i].slot * 32, newName)),
                      ret |-> "true"])))

Mkdir(d, parts, name, time, date) ==
    Let(ResolveDirSectors(d, parts), LAMBDA secs :
        IF Len(secs) = 0 THEN [d |-> d, ret |-> "Path not found"]
        ELSE IF FindName(EnumEntries(d, secs), name) # 0
             THEN [d |-> d, ret |-> "Already exists"]
        ELSE Let(AllocCluster(d), LAMBDA c :
            IF c < 0 THEN [d |-> d, ret |-> "Disk full"]
            ELSE Let(WBytes(SetFAT(d, c, 4095), C2s(c), 0, [i \in 1..512 |-> 0], 512),
                     LAMBDA d2 :
                 Let(AllocEntry(d2, secs), LAMBDA e :
                    IF e.sec < 0 THEN [d |-> d2, ret |-> "Directory full"]
                    ELSE [d   |-> Flush(PutEntry(d2, e, name, 16, time, date, c, 0)),
                          ret |-> "ok"]))))

(***************************************************************************)
(* The FAT12 engine as a state machine: the callers of the public          *)
(* operations (the shell, the editor, the DOS file bridge) with arguments  *)
(* from small sets.                                                        *)
(***************************************************************************)
Disk == [cache |-> cache, dirty |-> dirty, store |-> store]

BlankDisk == [cache |-> EmptyMap, dirty |-> {}, store |-> EmptyMap]

NameA == <<65, 46, 84, 88, 84>>          \* "A.TXT"
NameB == <<98, 46, 98, 105, 110>>        \* "b.bin"
NameD == <<68>>                          \* "D"

FsNames == {NameA, NameB, NameD}

FsPaths == {<<>>, <<NameD>>}

\* a file body of n bytes
DataOf(n) == [i \in 1..n |-> (i * 7 + n) % 256]

DataLens == {0, 3, 512, 1500}

\* (time, date) words computed from the host clock
Stamps == {<<21930, 23395>>}

\* startup: main() formats a disk that is not formatted
FreshDisk == Format(BlankDisk)

\* the first FAT sector written by format(): F0 FF FF, then free entries
FreshFat == [i \in 0..511 |-> IF i = 0 THEN 240 ELSE IF i < 3 THEN 255 ELSE 0]

\* no cluster is allocated and the root directory has no entry
IsFresh(d) ==
    /\ Len(EnumEntries(d, RootSecs)) = 0
    /\ R8(d, ROOT_START, 0) = 0
    /\ Sec(d, FAT1_START) = Array(FreshFat)
    /\ \A s \in 1..(SECTORS_PER_FAT - 1) : Sec(d, FAT1_START + s) = Array(ZeroSector)

FillName(k) == <<70, 64 + k>>            \* "FA", "FB", ...

\* the files FA.. numbered lo..hi, all empty, written in the directory parts
\* (the range is halved so that the evaluation stays shallow)
RECURSIVE FillDir(_, _, _, _)
FillDir(d, parts, lo, hi) ==
    IF lo > hi THEN d
    ELSE IF lo = hi THEN WriteFile(d, parts, FillName(lo), <<>>, 21930, 23395).d
    ELSE Let(FillDir(d, parts, lo, (lo + hi) \div 2), LAMBDA d1 :
            FillDir(d1, parts, (lo + hi) \div 2 + 1, hi))

DiskD == Mkdir(FreshDisk, <<>>, NameD, 21930, 23395).d

DiskDA == WriteFile(DiskD, <<>>, NameA, DataOf(3), 21930, 23395).d

DiskDAA == WriteFile(DiskDA, <<NameD>>, NameA, DataOf(3), 21930, 23395).d

DiskDAAB == WriteFile(DiskDAA, <<NameD>>, NameB, DataOf(512), 21930, 23395).d

\* a disk in use: file A.TXT in the root, and a directory D (one cluster,
\* 16 slots) that is full: A.TXT, b.bin and 14 empty files
WorkDisk == FillDir(DiskDAAB, <<NameD>>, 1, 14)

GroupName(g) == IF g = 1 THEN NameD ELSE <<71, 64 + g>>    \* "D", "GB", "GC", ...

\* the subdirectories FA.. numbered lo..hi made in the directory parts
RECURSIVE MkKids(_, _, _, _)
MkKids(d, parts, lo, hi) ==
    IF lo > hi THEN d
    ELSE IF lo = hi THEN Mkdir(d, parts, FillName(lo), 21930, 23395).d
    ELSE Let(MkKids(d, parts, lo, (lo + hi) \div 2), LAMBDA d1 :
            MkKids(d1, parts, (lo + hi) \div 2 + 1, hi))

\* directory number g in the root, with "kids" subdirectories
MkGroup(d, g, kids) ==
    Let(Mkdir(d, <<>>, GroupName(g), 21930, 23395).d, LAMBDA d1 :
        MkKids(d1, <<GroupName(g)>>, 1, kids))

\* the directories numbered lo..hi in the root, each with 16 subdirectories
RECURSIVE MkGroups(_, _, _)
MkGroups(d, lo, hi) ==
    IF lo > hi THEN d
    ELSE IF lo = hi THEN MkGroup(d, lo, 16)
    ELSE Let(MkGroups(d, lo, (lo + hi) \div 2), LAMBDA d1 :
            MkGroups(d1, (lo + hi) \div 2 + 1, hi))

\* a disk with clusters 2..340 allocated, whose directory D is full: the
\* next cluster, 341, has its FAT entry in the last byte of one FAT sector
\* and the first byte of the next
BigDisk == Let(MkGroups(FreshDisk, 1, 19), LAMBDA d1 : MkGroup(d1, 20, 15))

NoOp == [op |-> "none", parts |-> <<>>, name |-> <<>>, name2 |-> <<>>,
         data |-> <<>>, ret |-> "", fresh |-> FALSE]

FsInitDisks == {FreshDisk, WorkDisk, BigDisk}

SetDisk(d) ==
    /\ cache' = d.cache
    /\ dirty' = d.dirty
    /\ store' = d.store

(***************************************************************************)
(* Registers and FLAGS.                                                    *)
(***************************************************************************)
FLAGS == [CF |-> 1, PF |-> 4, AF |-> 16, ZF |-> 64, SF |-> 128, TF |-> 256,
          IF_ |-> 512, DF |-> 1024, OF |-> 2048]

Registers ==
    [ax |-> 0, bx |-> 0, cx |-> 0, dx |-> 0, si |-> 0, di |-> 0, bp |-> 0,
     sp |-> 65534, cs |-> 61440, ds |-> 0, es |-> 0, ss |-> 0, fs |-> 0,
     gs |-> 0, ip |-> 65520, flags |-> 2]

Lo(w) == w % 256
Hi(w) == (w \div 256) % 256
\* (w & 0xFF00) | (v & 0xFF)  and  (w & 0x00FF) | ((v & 0xFF) << 8)
SetLo(w, v) == (w \div 256) * 256 + (v % 256)
SetHi(w, v) == (w % 256) + (v % 256) * 256

FlagOf(flags, bit) == (flags \div bit) % 2 = 1

GetFlag(c, bit) == FlagOf(c.reg.flags, bit)

SetFlag(c, bit, val) ==
    [c EXCEPT !.reg.flags =
        IF val THEN (IF FlagOf(@, bit) THEN @ ELSE @ + bit)
        ELSE (IF FlagOf(@, bit) THEN @ - bit ELSE @)]

Segmented(seg, off) == ((seg * 16) + (off % 65536)) % 1048576

SetAX(c, v) == [c EXCEPT !.reg.ax = v % 65536]
SetAH(c, v) == [c EXCEPT !.reg.ax = SetHi(@, v)]
SetAL(c, v) == [c EXCEPT !.reg.ax = SetLo(@, v)]

GetReg16(c, r) ==
    CASE r = 0 -> c.reg.ax [] r = 1 -> c.reg.cx [] r = 2 -> c.reg.dx
      [] r = 3 -> c.reg.bx [] r = 4 -> c.reg.sp [] r = 5 -> c.reg.bp
      [] r = 6 -> c.reg.si [] r = 7 -> c.reg.di

SetReg16(c, r, v) ==
    CASE r = 0 -> [c EXCEPT !.reg.ax = v % 65536]
      [] r = 1 -> [c EXCEPT !.reg.cx = v % 65536]
      [] r = 2 -> [c EXCEPT !.reg.dx = v % 65536]
      [] r = 3 -> [c EXCEPT !.reg.bx = v % 65536]
      [] r = 4 -> [c EXCEPT !.reg.sp = v % 65536]
      [] r = 5 -> [c EXCEPT !.reg.bp = v % 65536]
      [] r = 6 -> [c EXCEPT !.reg.si = v % 65536]
      [] r = 7 -> [c EXCEPT !.reg.di = v % 65536]

SetReg8(c, r, v) ==
    CASE r = 0 -> [c EXCEPT !.reg.ax = SetLo(@, v)]
      [] r = 1 -> [c EXCEPT !.reg.cx = SetLo(@, v)]
      [] r = 2 -> [c EXCEPT !.reg.dx = SetLo(@, v)]
      [] r = 3 -> [c EXCEPT !.reg.bx = SetLo(@, v)]
      [] r = 4 -> [c EXCEPT !.reg.ax = SetHi(@, v)]
      [] r = 5 -> [c EXCEPT !.reg.cx = SetHi(@, v)]
      [] r = 6 -> [c EXCEPT !.reg.dx = SetHi(@, v)]
      [] r = 7 -> [c EXCEPT !.reg.bx = SetHi(@, v)]

(***************************************************************************)
(* Memory.  The variable mem holds the bytes written since the session     *)
(* began (the program image, the stack); every other address reads as      *)
(* installBIOS() and buildPSP(0, '') left it.                              *)
(***************************************************************************)
\* a program segment prefix without the INT 20h at offset 0
PspByteNoExit(a) ==
    CASE a = 3 -> 160
      [] a = 5 -> 205 [] a = 6 -> 33 [] a = 7 -> 203
      [] a = 129 -> 13
      [] OTHER -> 0

\* the program segment prefix at 0000:0000 (it lies over vectors 0..63)
PspByte(a) ==
    CASE a = 0 -> 205 [] a = 1 -> 32
      [] a = 3 -> 160
      [] a = 5 -> 205 [] a = 6 -> 33 [] a = 7 -> 203
      [] a >= 24 /\ a < 29 -> a - 24
      [] a >= 29 /\ a < 44 -> 255
      [] a = 44 -> 240 [] a = 45 -> 255
      [] a = 129 -> 13
      [] OTHER -> 0

\* every vector points at F000:FF00
IvtByte(a) ==
    CASE a % 4 = 1 -> 255 [] a % 4 = 3 -> 240 [] OTHER -> 0

\* BIOS data area
BdaByte(a) ==
    CASE a = 1024 -> 248 [] a = 1025 -> 3
      [] a = 1040 -> 33
      [] a = 1043 -> 128 [] a = 1044 -> 2
      [] a = 1097 -> 3
      [] a = 1098 -> 80
      [] a = 1101 -> 16
      [] a = 1123 -> 212 [] a = 1124 -> 3
      [] a = 1156 -> 24
      [] a = 1157 -> 16
      [] OTHER -> 0

\* the environment block of _buildEnvironment(-16): it starts at
\* (-256) & 0xFFFFF = F000:FF00, over the dummy IRET
EnvBytes ==
    <<67, 79, 77, 83, 80, 69, 67, 61, 65, 58, 92, 67, 79, 77, 77, 65, 78, 68,
      46, 67, 79, 77, 0, 80, 65, 84, 72, 61, 65, 58, 92, 0, 80, 82, 79, 77,
      80, 84, 61, 36, 80, 36, 71, 0, 84, 69, 77, 80, 61, 65, 58, 92, 84, 69,
      77, 80, 0, 0, 1, 0, 65, 58, 92, 80, 82, 79, 71, 82, 65, 77, 46, 67, 79,
      77, 0>>

BootMem(a) ==
    CASE a < 256 -> PspByte(a)
      [] a >= 256 /\ a < 1024 -> IvtByte(a)
      [] a >= 1024 /\ a < 1280 -> BdaByte(a)
      [] a >= 753664 /\ a < 757664 -> (IF a % 2 = 0 THEN 32 ELSE 7)
      [] a >= 1048320 /\ a < 1048320 + Len(EnvBytes) -> EnvBytes[a - 1048320 + 1]
      [] OTHER -> 0

Read8(c, addr) ==
    IF addr % 1048576 \in DOMAIN c.mem THEN c.mem[addr % 1048576]
    ELSE BootMem(addr % 1048576)

Write8(c, addr, val) == [c EXCEPT !.mem = ((addr % 1048576) :> (val % 256)) @@ @]

Read16(c, addr) == Read8(c, addr) + 256 * Read8(c, addr + 1)

Write16(c, addr, val) == Write8(Write8(c, addr, val % 256), addr + 1, (val \div 256) % 256)

\* mem.load(0x100, data) and the word 0 pushed at SS:FFFC
Load(data) ==
    [a \in 256..(255 + Len(data)) |-> data[a - 255] % 256] @@ (65532 :> 0) @@ (65533 :> 0)

(***************************************************************************)
(* CPU8086: fetch, stack.  A value c is the whole machine: the registers,  *)
(* the memory, the halt state, the key buffer, the DOS file bridge         *)
(* (handles, nextHandle) and the disk d it works on.                       *)
(***************************************************************************)
\* the byte k places after CS:IP
FetchedAt(c, k) == Read8(c, Segmented(c.reg.cs, c.reg.ip + k))

Advance(c, k) == [c EXCEPT !.reg.ip = (@ + k) % 65536]

SByte(v) == IF v >= 128 THEN v - 256 ELSE v

Push(c, val) ==
    Write16([c EXCEPT !.reg.sp = (@ + 65534) % 65536],
            Segmented(c.reg.ss, c.reg.sp + 65534), val % 65536)

\* pop(): the word read, and the machine after it
Top(c) == Read16(c, Segmented(c.reg.ss, c.reg.sp))

Drop(c) == [c EXCEPT !.reg.sp = (@ + 2) % 65536]

\* a key buffer that takes each new key in front of the older ones
PushKeyFront(buf, scancode, ascii) == <<scancode * 256 + ascii>> \o buf

PushKey(buf, scancode, ascii) == Append(buf, scancode * 256 + ascii)

(***************************************************************************)
(* DOSFileIO.                                                              *)
(***************************************************************************)
CwdParts == <<>>

RECURSIVE ReadStringFrom(_, _, _)
ReadStringFrom(c, addr, lim) ==
    IF lim >= 260 \/ Read8(c, addr) = 0 THEN <<>>
    ELSE <<Read8(c, addr)>> \o ReadStringFrom(c, addr + 1, lim + 1)

ReadString(c, seg, off) == ReadStringFrom(c, (seg * 16 + off) % 1048576, 0)

IsLetter(ch) == (ch >= 65 /\ ch <= 90) \/ (ch >= 97 /\ ch <= 122)

\* path.replace(/^[A-Za-z]:\\?/, '')
StripDrive(s) ==
    IF Len(s) >= 2 /\ IsLetter(s[1]) /\ s[2] = 58
    THEN (IF Len(s) >= 3 /\ s[3] = 92 THEN SubSeq(s, 4, Len(s)) ELSE SubSeq(s, 3, Len(s)))
    ELSE s

\* split on / and \, empty components dropped, upper case
RECURSIVE SplitPath(_, _)
SplitPath(s, cur) ==
    IF Len(s) = 0 THEN (IF Len(cur) = 0 THEN <<>> ELSE <<Upper(cur)>>)
    ELSE IF Head(s) = 47 \/ Head(s) = 92
         THEN (IF Len(cur) = 0 THEN <<>> ELSE <<Upper(cur)>>) \o SplitPath(Tail(s), <<>>)
         ELSE SplitPath(Tail(s), Append(cur, Head(s)))

PathOf(parts) ==
    IF Len(parts) = 0 THEN [dp |-> <<>>, fn |-> <<>>]
    ELSE [dp |-> SubSeq(parts, 1, Len(parts) - 1), fn |-> parts[Len(parts)]]

ParsePath(path) == PathOf(SplitPath(StripDrive(path), <<>>))

Fail(c, code) == SetFlag(SetAX(c, code), FLAGS.CF, TRUE)

Succeed(c) == SetFlag(c, FLAGS.CF, FALSE)

CreateFile(c, st) ==
    Let(ParsePath(ReadString(c, c.reg.ds, c.reg.dx)), LAMBDA p :
        IF Len(p.fn) = 0 THEN Fail(c, 3)
        ELSE Let(WriteFile(c.d, CwdParts \o p.dp, p.fn, <<>>, st[1], st[2]), LAMBDA w :
            IF w.ret # "ok" THEN Fail([c EXCEPT !.d = w.d], 5)
            ELSE Succeed(SetAX(
                    [c EXCEPT !.d = Flush(w.d),
                              !.handles = (c.nextHandle :>
                                  [name |-> p.fn, data |-> <<>>, pos |-> 0, mode |-> 1,
                                   dirParts |-> CwdParts \o p.dp, modified |-> FALSE,
                                   hasBuf |-> TRUE, buf |-> <<>>]) @@ @,
                              !.nextHandle = @ + 1],
                    c.nextHandle))))

OpenFile(c) ==
    Let(ParsePath(ReadString(c, c.reg.ds, c.reg.dx)), LAMBDA p :
        IF Len(p.fn) = 0 THEN Fail(c, 2)
        ELSE Let(ReadFile(c.d, CwdParts \o p.dp, p.fn), LAMBDA f :
            IF ~f.found THEN Fail(c, 2)
            ELSE Succeed(SetAX(
                    [c EXCEPT !.handles = (c.nextHandle :>
                                  [name |-> p.fn, data |-> f.data, pos |-> 0,
                                   mode |-> Lo(c.reg.ax),
                                   dirParts |-> CwdParts \o p.dp, modified |-> FALSE,
                                   hasBuf |-> FALSE, buf |-> <<>>]) @@ @,
                              !.nextHandle = @ + 1],
                    c.nextHandle))))

AnyFile == <<42, 46, 42>>                \* "*.*"

\* the file-name part of the search spec at DS:DX, "*.*" when there is none
PatternOf(c) ==
    Let(ReadString(c, c.reg.ds, c.reg.dx), LAMBDA spec :
    Let(ParsePath(IF Len(spec) = 0 THEN AnyFile ELSE spec), LAMBDA p :
        [dp |-> p.dp, pattern |-> IF Len(p.fn) = 0 THEN AnyFile ELSE p.fn]))

\* new RegExp(source) throws a SyntaxError: a "[" of the pattern opens a
\* character class that no "]" closes (patterns of letters, digits and
\* . * ? [ ] only, which the replacements leave without other syntax)
RECURSIVE ClassLeftOpen(_, _, _)
ClassLeftOpen(pattern, i, inside) ==
    IF i > Len(pattern) THEN inside
    ELSE ClassLeftOpen(pattern, i + 1,
                       IF inside THEN pattern[i] # 93 ELSE pattern[i] = 91)

RegExpThrows(pattern) == ClassLeftOpen(pattern, 1, FALSE)

\* _findFirst when no entry of the directory is listed; the exception of
\* new RegExp leaves the handler at once
FindFirst(c) ==
    IF RegExpThrows(PatternOf(c).pattern) THEN [c EXCEPT !.threw = TRUE]
    ELSE Fail(c, 18)

\* writeFile then flush inside try { } catch { }: a throw skips the flush
WriteBack(d, e, st) ==
    Let(WriteFile(d, e.dirParts, e.name, e.buf, st[1], st[2]), LAMBDA w :
        IF w.ret = "ok" THEN Flush(w.d) ELSE w.d)

Without(f, h) == [k \in DOMAIN f \ {h} |-> f[k]]

CloseFile(c, st) ==
    IF c.reg.bx <= 4 THEN Succeed(c)
    ELSE IF c.reg.bx \notin DOMAIN c.handles THEN Fail(c, 6)
    ELSE Succeed([c EXCEPT
            !.d = IF c.handles[c.reg.bx].modified /\ c.handles[c.reg.bx].hasBuf
                  THEN WriteBack(@, c.handles[c.reg.bx], st) ELSE @,
            !.handles = Without(@, c.reg.bx)])

(***************************************************************************)
(* The synthetic interrupt handlers and the trampoline.                    *)
(***************************************************************************)
\* the vectors registerBiosHandlers() gives a handler
Registered == {16, 17, 18, 19, 20, 21, 22, 23, 25, 26, 32, 33, 34, 35, 36, 39, 40, 47, 51}

VRAM_BASE == 753664

\* the address of the character of the cell at (row, col); its attribute follows
CellAddr(row, col) == VRAM_BASE + (row * 80 + col) * 2

\* "Scroll up 1 line": every cell takes the cell 80 places on, row 24 is
\* filled with 0x0720
ScrollUp(c) ==
    [c EXCEPT !.mem =
        [a \in VRAM_BASE..(VRAM_BASE + 3999) |->
            IF a < VRAM_BASE + 3840 THEN Read8(c, a + 160)
            ELSE IF a % 2 = 0 THEN 32 ELSE 7] @@ @]

\* the first branch of the teletype case: the character acted upon
TeletypeChar(c, ch) ==
    CASE ch = 7 -> c
      [] ch = 8 -> IF c.biosCursorCol > 0 THEN [c EXCEPT !.biosCursorCol = @ - 1] ELSE c
      [] ch = 10 -> [c EXCEPT !.biosCursorRow = @ + 1]
      [] ch = 13 -> [c EXCEPT !.biosCursorCol = 0]
      [] OTHER ->
            Let(Write8(Write8(c, CellAddr(c.biosCursorRow, c.biosCursorCol), ch),
                       CellAddr(c.biosCursorRow, c.biosCursorCol) + 1, 7),
                LAMBDA c1 : [c1 EXCEPT !.biosCursorCol = @ + 1])

TeletypeWrap(c) ==
    IF c.biosCursorCol >= 80
    THEN [c EXCEPT !.biosCursorCol = 0, !.biosCursorRow = @ + 1]
    ELSE c

TeletypeScroll(c) ==
    IF c.biosCursorRow >= 25 THEN [ScrollUp(c) EXCEPT !.biosCursorRow = 24] ELSE c

\* the cursor as the BIOS data area shows it
CursorToBda(c) == Write8(Write8(c, 1104, c.biosCursorCol), 1105, c.biosCursorRow)

\* a teletype that lets the column run past 79
TeletypeNoWrap(c) ==
    Let(TeletypeChar(c, Lo(c.reg.ax)), LAMBDA c1 :
    Let(TeletypeScroll(c1), LAMBDA c2 : CursorToBda(c2)))

\* INT 10h AH=0Eh
Teletype(c) ==
    Let(TeletypeChar(c, Lo(c.reg.ax)), LAMBDA c1 :
    Let(TeletypeWrap(c1), LAMBDA c2 :
    Let(TeletypeScroll(c2), LAMBDA c3 : CursorToBda(c3))))

\* INT 10h: set cursor position, teletype output
Int10(c) ==
    CASE Hi(c.reg.ax) = 2 ->
            Write8(Write8([c EXCEPT !.biosCursorRow = Hi(c.reg.dx),
                                    !.biosCursorCol = Lo(c.reg.dx)],
                          1104, Lo(c.reg.dx)), 1105, Hi(c.reg.dx))
      [] Hi(c.reg.ax) = 14 -> Teletype(c)
      [] OTHER -> c

\* the host's handler: "count" sectors from sector lba of the FAT12 disk
\* to bufAddr; it refuses a read past the last sector
DiskRead(c, lba, count, bufAddr) ==
    IF lba < 0 \/ lba + count > TOTAL_SECTORS THEN [c |-> c, ok |-> FALSE]
    ELSE [c  |-> [c EXCEPT !.mem =
                     [a \in {(bufAddr + i) % 1048576 : i \in 0..(count * 512 - 1)} |->
                         LET i == (a - bufAddr) % 1048576
                         IN  Sec(c.d, lba + (i \div 512))[i % 512]] @@ @],
          ok |-> TRUE]

\* AH=02h: cyl = CH | ((CL & 0xC0) << 2), sector = CL & 0x3F, head = DH
ReadSectors(c) ==
    IF c.diskReadHandler
    THEN Let(DiskRead(c, ((Hi(c.reg.cx) + 4 * (Lo(c.reg.cx) - (Lo(c.reg.cx) % 64))) * 2
                             + Hi(c.reg.dx)) * 18 + ((Lo(c.reg.cx) % 64) - 1),
                      Lo(c.reg.ax), Segmented(c.reg.es, c.reg.bx)),
             LAMBDA r :
                IF r.ok THEN SetFlag(SetAH(r.c, 0), FLAGS.CF, FALSE)
                ELSE SetFlag(SetAH(r.c, 4), FLAGS.CF, TRUE))
    ELSE SetFlag(SetAH(c, 128), FLAGS.CF, TRUE)

\* INT 13h: reset, read sectors
Int13(c) ==
    CASE Hi(c.reg.ax) = 0 -> SetFlag(SetAH(c, 0), FLAGS.CF, FALSE)
      [] Hi(c.reg.ax) = 2 -> ReadSectors(c)
      [] OTHER -> c

\* a keyboard handler whose blocking read halts without moving IP back
Int16NoRewind(c) ==
    CASE Hi(c.reg.ax) \in {0, 16} ->
            IF Len(c.biosKeyBuffer) > 0
            THEN [c EXCEPT !.reg.ax = SetLo(SetHi(@, Hi(Head(c.biosKeyBuffer))),
                                            Lo(Head(c.biosKeyBuffer))),
                           !.biosKeyBuffer = Tail(@)]
            ELSE [c EXCEPT !.halted = TRUE, !.haltReason = "key_wait"]
      [] OTHER -> c

\* INT 16h: keyboard
Int16(c) ==
    CASE Hi(c.reg.ax) \in {0, 16} ->
            IF Len(c.biosKeyBuffer) > 0
            THEN [c EXCEPT !.reg.ax = SetLo(SetHi(@, Hi(Head(c.biosKeyBuffer))),
                                            Lo(Head(c.biosKeyBuffer))),
                           !.biosKeyBuffer = Tail(@)]
            ELSE [c EXCEPT !.reg.ip = (@ + 65534) % 65536,
                           !.halted = TRUE,
                           !.haltReason = "key_wait"]
      [] Hi(c.reg.ax) \in {1, 17} ->
            IF Len(c.biosKeyBuffer) > 0
            THEN SetFlag([c EXCEPT !.reg.ax = SetLo(SetHi(@, Hi(Head(c.biosKeyBuffer))),
                                                    Lo(Head(c.biosKeyBuffer)))],
                         FLAGS.ZF, FALSE)
            ELSE SetFlag(c, FLAGS.ZF, TRUE)
      [] Hi(c.reg.ax) = 2 -> SetAL(c, 0)
      [] OTHER -> c

\* INT 20h, INT 27h, INT 21h AH=4Ch
Exit(c) == [c EXCEPT !.halted = TRUE, !.haltReason = "program_exit"]

\* INT 21h: the functions 3Ch, 3Dh, 3Eh go to the file bridge; 40h is
\* caught by the earlier "case 0x40" of the switch (standard output and
\* standard error only), which hides the one that goes to the bridge
Int21(c, st) ==
    CASE Hi(c.reg.ax) = 60 -> CreateFile(c, st)
      [] Hi(c.reg.ax) = 61 -> OpenFile(c)
      [] Hi(c.reg.ax) = 62 -> CloseFile(c, st)
      [] Hi(c.reg.ax) = 64 ->
            IF c.reg.bx = 1 \/ c.reg.bx = 2
            THEN Succeed(SetAX(c, c.reg.cx))
            ELSE Fail(c, 6)
      [] Hi(c.reg.ax) = 76 -> Exit(c)
      [] Hi(c.reg.ax) = 78 -> FindFirst(c)
      [] OTHER -> c

\* after handler(): three pops; a handler that halted keeps its CS:IP
Unwind(c, ip, cs, flags, keep) ==
    IF keep THEN [c EXCEPT !.reg.flags = flags]
    ELSE [c EXCEPT !.reg.ip = ip, !.reg.cs = cs, !.reg.flags = flags]

\* hflags records the flags as the handler left them
Return(h) ==
    Unwind([Drop(Drop(Drop(h))) EXCEPT !.hflags = h.reg.flags],
           Top(h), Top(Drop(h)), Top(Drop(Drop(h))), h.halted)

RECURSIVE DoInterrupt(_, _, _)

\* INT 19h: bootstrap; it calls doInterrupt(0x13) from inside the handler
Int19(c, st) ==
    Let(DoInterrupt([c EXCEPT !.reg.dx = 0, !.reg.ax = 513, !.reg.cx = 1,
                              !.reg.es = 0, !.reg.bx = 31744], 19, st),
        LAMBDA c1 :
            IF ~GetFlag(c1, FLAGS.CF)
            THEN [c1 EXCEPT !.reg.cs = 0, !.reg.ip = 31744, !.reg.dx = SetLo(@, 0)]
            ELSE c1)

Handler(c, vector, st) ==
    CASE vector = 16 -> Int10(c)
      [] vector = 19 -> Int13(c)
      [] vector = 22 -> Int16(c)
      [] vector = 23 -> SetAH(c, 48)
      [] vector = 25 -> Int19(c, st)
      [] vector = 32 -> Exit(c)
      [] vector = 33 -> Int21(c, st)
      [] vector = 36 -> SetAL(c, 0)
      [] vector = 39 -> Exit(c)
      [] OTHER -> c

DoInterrupt(c, vector, st) ==
    IF vector \in Registered
    THEN Let(Handler(c, vector, st), LAMBDA h : IF h.threw THEN h ELSE Return(h))
    ELSE [c EXCEPT !.reg.cs = Read16(c, vector * 4 + 2),
                   !.reg.ip = Read16(c, vector * 4)]

\* (v & 0x0FD4) | 0x0002: the carry flag is not restored
IretFlagsNoCarry(v) ==
    2 + 4 * ((v \div 4) % 2) + 16 * ((v \div 16) % 2) + 64 * ((v \div 64) % 64)

\* (v & 0x0FD5) | 0x0002
IretFlags(v) ==
    (v % 2) + 2 + 4 * ((v \div 4) % 2) + 16 * ((v \div 16) % 2) + 64 * ((v \div 64) % 64)

\* push flags, CS, IP
Frame(c) == Push(Push(Push(c, c.reg.flags), c.reg.cs), c.reg.ip)

(***************************************************************************)
(* Arithmetic with flags, ModRM operands, the F6/F7 group, BOUND and the   *)
(* string instructions.  Operators that a width of 8 or 16 bits selects    *)
(* in the source (add8/add16, readRM8/readRM16, ...) take it as "bits".    *)
(***************************************************************************)
Bit(v, k) == (v \div (2 ^ k)) % 2

\* p ^= v & 1 over the low eight bits; p === 0
Parity(val) ==
    (Bit(val, 0) + Bit(val, 1) + Bit(val, 2) + Bit(val, 3)
        + Bit(val, 4) + Bit(val, 5) + Bit(val, 6) + Bit(val, 7)) % 2 = 0

\* r & 0xFF, r & 0xFFFF (r may be negative: % is the non-negative residue)
Masked(bits, r) == r % (2 ^ bits)

UpdateZSP(c, bits, r) ==
    SetFlag(SetFlag(SetFlag(c,
        FLAGS.ZF, Masked(bits, r) = 0),
        FLAGS.SF, Bit(Masked(bits, r), bits - 1) = 1),
        FLAGS.PF, Parity(Masked(bits, r)))

\* an addition that drops the carry-in
AddNoCarry(c, bits, a, b, carry) ==
    Let(Masked(bits, a) + Masked(bits, b), LAMBDA r :
        [c |-> UpdateZSP(SetFlag(SetFlag(SetFlag(c,
                    FLAGS.CF, r > 2 ^ bits - 1),
                    FLAGS.OF, Bit(a, bits - 1) = Bit(b, bits - 1)
                                /\ Bit(a, bits - 1) # Bit(r, bits - 1)),
                    FLAGS.AF, (Bit(a, 4) + Bit(b, 4) + Bit(r, 4)) % 2 = 1),
                bits, r),
         r |-> Masked(bits, r)])

\* add8 / add16: the machine with the flags set, and the sum
AddN(c, bits, a, b, carry) ==
    Let(Masked(bits, a) + Masked(bits, b) + carry, LAMBDA r :
        [c |-> UpdateZSP(SetFlag(SetFlag(SetFlag(c,
                    FLAGS.CF, r > 2 ^ bits - 1),
                    FLAGS.OF, Bit(a, bits - 1) = Bit(b, bits - 1)
                                /\ Bit(a, bits - 1) # Bit(r, bits - 1)),
                    FLAGS.AF, (Bit(a, 4) + Bit(b, 4) + Bit(r, 4)) % 2 = 1),
                bits, r),
         r |-> Masked(bits, r)])

\* sub8 / sub16
SubN(c, bits, a, b, borrow) ==
    Let(Masked(bits, a) - Masked(bits, b) - borrow, LAMBDA r :
        [c |-> UpdateZSP(SetFlag(SetFlag(SetFlag(c,
                    FLAGS.CF, r < 0),
                    FLAGS.OF, Bit(a, bits - 1) # Bit(b, bits - 1)
                                /\ Bit(a, bits - 1) # Bit(Masked(bits, r), bits - 1)),
                    FLAGS.AF, (Bit(a, 4) + Bit(b, 4) + Bit(Masked(bits, r), 4)) % 2 = 1),
                bits, r),
         r |-> Masked(bits, r)])

GetReg8(c, r) ==
    CASE r = 0 -> Lo(c.reg.ax) [] r = 1 -> Lo(c.reg.cx) [] r = 2 -> Lo(c.reg.dx)
      [] r = 3 -> Lo(c.reg.bx) [] r = 4 -> Hi(c.reg.ax) [] r = 5 -> Hi(c.reg.cx)
      [] r = 6 -> Hi(c.reg.dx) [] r = 7 -> Hi(c.reg.bx)

GetReg(c, bits, r) == IF bits = 8 THEN GetReg8(c, r) ELSE GetReg16(c, r)

SetReg(c, bits, r, v) == IF bits = 8 THEN SetReg8(c, r, v) ELSE SetReg16(c, r, v)

DecodeModRM(byte) ==
    [mod |-> (byte \div 64) % 4, reg |-> (byte \div 8) % 8, rm |-> byte % 8]

\* calcEA(mod, rm) for mod = 0 and rm # 6: no displacement is fetched
\* resolveSeg(defaultSeg)
ResolveSeg(c, defaultSeg) ==
    IF c.segOverride # <<>> THEN c.segOverride[1] ELSE defaultSeg

CalcEA(c, rm) ==
    CASE rm = 0 -> Segmented(ResolveSeg(c, c.reg.ds), c.reg.bx + c.reg.si)
      [] rm = 1 -> Segmented(ResolveSeg(c, c.reg.ds), c.reg.bx + c.reg.di)
      [] rm = 2 -> Segmented(ResolveSeg(c, c.reg.ss), c.reg.bp + c.reg.si)
      [] rm = 3 -> Segmented(ResolveSeg(c, c.reg.ss), c.reg.bp + c.reg.di)
      [] rm = 4 -> Segmented(ResolveSeg(c, c.reg.ds), c.reg.si)
      [] rm = 5 -> Segmented(ResolveSeg(c, c.reg.ds), c.reg.di)
      [] rm = 7 -> Segmented(ResolveSeg(c, c.reg.ds), c.reg.bx)

ReadN(c, bits, addr) == IF bits = 8 THEN Read8(c, addr) ELSE Read16(c, addr)

WriteN(c, bits, addr, val) ==
    IF bits = 8 THEN Write8(c, addr, val) ELSE Write16(c, addr, val)

\* readRM8 / readRM16
ReadRM(c, bits, m) ==
    IF m.mod = 3 THEN GetReg(c, bits, m.rm) ELSE ReadN(c, bits, CalcEA(c, m.rm))

\* writeRM8 / writeRM16
WriteRM(c, bits, m, val) ==
    IF m.mod = 3 THEN SetReg(c, bits, m.rm, val)
    ELSE WriteN(c, bits, CalcEA(c, m.rm), val)

\* the width an opcode's low bit selects
Width(opcode) == IF opcode % 2 = 0 THEN 8 ELSE 16

CarryIn(c) == IF GetFlag(c, FLAGS.CF) THEN 1 ELSE 0

\* ADD 00/01, ADC 10/11, SBB 18/19, SUB 28/29, CMP 38/39: op r/m, reg
Alu(c, opcode, m) ==
    CASE opcode \in {0, 1} ->
            Let(AddN(c, Width(opcode), ReadRM(c, Width(opcode), m),
                     GetReg(c, Width(opcode), m.reg), 0),
                LAMBDA x : WriteRM(x.c, Width(opcode), m, x.r))
      [] opcode \in {16, 17} ->
            Let(AddN(c, Width(opcode), ReadRM(c, Width(opcode), m),
                     GetReg(c, Width(opcode), m.reg), CarryIn(c)),
                LAMBDA x : WriteRM(x.c, Width(opcode), m, x.r))
      [] opcode \in {24, 25} ->
            Let(SubN(c, Width(opcode), ReadRM(c, Width(opcode), m),
                     GetReg(c, Width(opcode), m.reg), CarryIn(c)),
                LAMBDA x : WriteRM(x.c, Width(opcode), m, x.r))
      [] opcode \in {40, 41} ->
            Let(SubN(c, Width(opcode), ReadRM(c, Width(opcode), m),
                     GetReg(c, Width(opcode), m.reg), 0),
                LAMBDA x : WriteRM(x.c, Width(opcode), m, x.r))
      [] opcode \in {56, 57} ->
            SubN(c, Width(opcode), ReadRM(c, Width(opcode), m),
                 GetReg(c, Width(opcode), m.reg), 0).c

\* INC r16 (40-47) / DEC r16 (48-4F): CF saved and put back
IncDec16(c, opcode) ==
    IF opcode < 72
    THEN Let(AddN(c, 16, GetReg16(c, opcode - 64), 1, 0), LAMBDA x :
            SetFlag(SetReg16(x.c, opcode - 64, x.r), FLAGS.CF, GetFlag(c, FLAGS.CF)))
    ELSE Let(SubN(c, 16, GetReg16(c, opcode - 72), 1, 0), LAMBDA x :
            SetFlag(SetReg16(x.c, opcode - 72, x.r), FLAGS.CF, GetFlag(c, FLAGS.CF)))

\* FE: INC/DEC r/m8 (any op but 0 decrements); FF /0 and /1: INC/DEC r/m16
IncDecRM(c, opcode, m) ==
    IF m.reg = 0
    THEN Let(AddN(c, Width(opcode), ReadRM(c, Width(opcode), m), 1, 0), LAMBDA x :
            SetFlag(WriteRM(x.c, Width(opcode), m, x.r), FLAGS.CF, GetFlag(c, FLAGS.CF)))
    ELSE Let(SubN(c, Width(opcode), ReadRM(c, Width(opcode), m), 1, 0), LAMBDA x :
            SetFlag(WriteRM(x.c, Width(opcode), m, x.r), FLAGS.CF, GetFlag(c, FLAGS.CF)))

\* toSigned8 / toSigned16
ToSigned(bits, v) == IF v >= 2 ^ (bits - 1) THEN v - 2 ^ bits ELSE v

\* toSigned32(dx * 0x10000 + ax), computed without leaving 32 bits
Signed32(dx, ax) == ToSigned(16, dx) * 65536 + ax

\* the low and the high word of x * y, 0 <= x, y < 2^16, from the partial
\* products x * (y & 0xFF) and x * (y >> 8)
MulLow(x, y) == (x * (y % 256) + ((x * (y \div 256)) % 256) * 256) % 65536

MulHigh(x, y) ==
    (x * (y \div 256)) \div 256
        + (x * (y % 256) + ((x * (y \div 256)) % 256) * 256) \div 65536

\* Math.floor((dx * 0x10000 + ax) / a) > 0xFFFF; a quotient of a dividend
\* of 2^31 or more by a < 2^16 is above 0xFFFF
QuotientTooBig(dx, ax, a) ==
    dx >= 32768 \/ (dx * 65536 + ax) \div a > 65535

Abs(v) == IF v < 0 THEN -v ELSE v

TruncFloor(a, b) == IF b > 0 THEN a \div b ELSE (-a) \div (-b)

\* Math.trunc(a / b)
Trunc(a, b) ==
    IF (a < 0) = (b < 0) THEN Abs(a) \div Abs(b) ELSE -(Abs(a) \div Abs(b))

\* a % b of the host language: the sign of a
Rem(a, b) == a - b * Trunc(a, b)

SetOverflow(c, overflow) ==
    SetFlag(SetFlag(c, FLAGS.CF, overflow), FLAGS.OF, overflow)

\* the F6 group, /4 .. /7, on the operand a
Grp3Byte(c, op, a, st) ==
    CASE op = 4 ->
            Let(SetAX(c, Lo(c.reg.ax) * a), LAMBDA c1 :
                SetOverflow(c1, Hi(c1.reg.ax) # 0))
      [] op = 5 ->
            Let(ToSigned(8, Lo(c.reg.ax)) * ToSigned(8, a), LAMBDA result :
                SetOverflow(SetAX(c, Masked(16, result)),
                            result < -128 \/ result > 127))
      [] op = 6 ->
            IF a = 0 THEN DoInterrupt(c, 0, st)
            ELSE IF c.reg.ax \div a > 255 THEN DoInterrupt(c, 0, st)
            ELSE SetAH(SetAL(c, c.reg.ax \div a), c.reg.ax % a)
      [] op = 7 ->
            IF a = 0 THEN DoInterrupt(c, 0, st)
            ELSE Let(Trunc(ToSigned(16, c.reg.ax), ToSigned(8, a)), LAMBDA q :
                    IF q < -128 \/ q > 127 THEN DoInterrupt(c, 0, st)
                    ELSE SetAH(SetAL(c, Masked(8, q)),
                               Masked(8, Rem(ToSigned(16, c.reg.ax), ToSigned(8, a)))))

\* the F7 group, /4 .. /7, on the operand a
Grp3Word(c, op, a, st) ==
    CASE op = 4 ->
            Let([c EXCEPT !.reg.ax = MulLow(c.reg.ax, a),
                          !.reg.dx = MulHigh(c.reg.ax, a)],
                LAMBDA c1 : SetOverflow(c1, c1.reg.dx # 0))
      [] op = 5 ->
            Let(ToSigned(16, c.reg.ax) * ToSigned(16, a), LAMBDA result :
                SetOverflow([c EXCEPT !.reg.ax = Masked(16, result),
                                      !.reg.dx = Masked(16, Trunc(result, 65536))],
                            result < -32768 \/ result > 32767))
      [] op = 6 ->
            IF a = 0 THEN DoInterrupt(c, 0, st)
            ELSE IF QuotientTooBig(c.reg.dx, c.reg.ax, a) THEN DoInterrupt(c, 0, st)
            ELSE Let(c.reg.dx * 65536 + c.reg.ax, LAMBDA dividend :
                    [c EXCEPT !.reg.ax = dividend \div a,
                              !.reg.dx = dividend % a])
      [] op = 7 ->
            IF a = 0 THEN DoInterrupt(c, 0, st)
            ELSE Let(Signed32(c.reg.dx, c.reg.ax), LAMBDA dividend :
                 Let(Trunc(dividend, ToSigned(16, a)), LAMBDA q :
                    IF q < -32768 \/ q > 32767 THEN DoInterrupt(c, 0, st)
                    ELSE [c EXCEPT !.reg.ax = Masked(16, q),
                                   !.reg.dx = Masked(16, Rem(dividend, ToSigned(16, a)))]))

\* BOUND r16, m16&16: an unsigned comparison, then doInterrupt(5)
Bound(c, m, st) ==
    IF \/ GetReg16(c, m.reg) < Read16(c, CalcEA(c, m.rm))
       \/ GetReg16(c, m.reg) > Read16(c, CalcEA(c, m.rm) + 2)
    THEN DoInterrupt(c, 5, st)
    ELSE c

\* (ah & 0xD5)
SahfBits(ah) ==
    Bit(ah, 0) + 4 * Bit(ah, 2) + 16 * Bit(ah, 4) + 64 * Bit(ah, 6) + 128 * Bit(ah, 7)

SiDir(c) == IF GetFlag(c, FLAGS.DF) THEN -1 ELSE 1

\* (v + d) & 0xFFFF
Bump(v, d) == (v + d + 65536) % 65536

\* the distance one iteration moves an index register
Stride(c, opcode) == SiDir(c) * (IF opcode % 2 = 0 THEN 1 ELSE 2)

\* CMPS and SCAS set _lastStrOpSetsZF
LastStrOpNeverSetsZF(opcode) == FALSE

LastStrOpSetsZF(opcode) == opcode \in {166, 167, 174, 175}

\* the closure each string opcode passes to strStep
StrOp(c, opcode) ==
    CASE opcode \in {164, 165} ->
            [WriteN(c, Width(opcode), Segmented(c.reg.es, c.reg.di),
                    ReadN(c, Width(opcode), Segmented(ResolveSeg(c, c.reg.ds), c.reg.si)))
                EXCEPT !.reg.si = Bump(@, Stride(c, opcode)),
                       !.reg.di = Bump(@, Stride(c, opcode))]
      [] opcode \in {166, 167} ->
            [SubN(c, Width(opcode),
                  ReadN(c, Width(opcode), Segmented(ResolveSeg(c, c.reg.ds), c.reg.si)),
                  ReadN(c, Width(opcode), Segmented(c.reg.es, c.reg.di)), 0).c
                EXCEPT !.reg.si = Bump(@, Stride(c, opcode)),
                       !.reg.di = Bump(@, Stride(c, opcode))]
      [] opcode \in {170, 171} ->
            [WriteN(c, Width(opcode), Segmented(c.reg.es, c.reg.di),
                    GetReg(c, Width(opcode), 0))
                EXCEPT !.reg.di = Bump(@, Stride(c, opcode))]
      [] opcode \in {172, 173} ->
            [SetReg(c, Width(opcode), 0,
                    ReadN(c, Width(opcode), Segmented(ResolveSeg(c, c.reg.ds), c.reg.si)))
                EXCEPT !.reg.si = Bump(@, Stride(c, opcode))]
      [] opcode \in {174, 175} ->
            [SubN(c, Width(opcode), GetReg(c, Width(opcode), 0),
                  ReadN(c, Width(opcode), Segmented(c.reg.es, c.reg.di)), 0).c
                EXCEPT !.reg.di = Bump(@, Stride(c, opcode))]

\* one pass of the body whatever CX holds
StrLoopOnce(c, opcode) == [StrOp(c, opcode) EXCEPT !.reg.cx = (@ + 65535) % 65536]

\* while (cx !== 0) { op(); cx--; the two breaks }
RECURSIVE StrLoop(_, _)
StrLoop(c, opcode) ==
    IF c.reg.cx = 0 THEN c
    ELSE Let([StrOp(c, opcode) EXCEPT !.reg.cx = (@ + 65535) % 65536], LAMBDA c1 :
            IF c.repPrefix = "REPNE" /\ GetFlag(c1, FLAGS.ZF) THEN c1
            ELSE IF /\ c.repPrefix = "REP" /\ ~GetFlag(c1, FLAGS.ZF)
                    /\ LastStrOpSetsZF(opcode) THEN c1
            ELSE StrLoop(c1, opcode))

StrStep(c, opcode) ==
    [(IF c.repPrefix = "" THEN StrOp(c, opcode) ELSE StrLoop(c, opcode))
        EXCEPT !.repPrefix = "", !.segOverride = <<>>]

(***************************************************************************)
(* doShift8 / doShift16: the shift group, op = the reg field of the ModRM  *)
(* byte.                                                                   *)
(***************************************************************************)
TopBit(bits, v) == Bit(v, bits - 1)

\* the for loops: n more iterations of a rotate (op 0..3) or of SAR's sign
\* fill (op 7) on the value r
RECURSIVE ShiftLoop(_, _, _, _, _, _)
ShiftLoop(c, bits, op, r, signBit, n) ==
    IF n = 0 THEN [c |-> c, r |-> r]
    ELSE CASE op = 0 ->
                ShiftLoop(SetFlag(c, FLAGS.CF, TopBit(bits, r) # 0), bits, op,
                          Masked(bits, r * 2 + TopBit(bits, r)), signBit, n - 1)
           [] op = 1 ->
                ShiftLoop(SetFlag(c, FLAGS.CF, r % 2 # 0), bits, op,
                          Masked(bits, (r % 2) * 2 ^ (bits - 1) + r \div 2),
                          signBit, n - 1)
           [] op = 2 ->
                ShiftLoop(SetFlag(c, FLAGS.CF, TopBit(bits, r) # 0), bits, op,
                          Masked(bits, r * 2 + CarryIn(c)), signBit, n - 1)
           [] op = 3 ->
                ShiftLoop(SetFlag(c, FLAGS.CF, r % 2 # 0), bits, op,
                          Masked(bits, CarryIn(c) * 2 ^ (bits - 1) + r \div 2),
                          signBit, n - 1)
           [] OTHER ->
                ShiftLoop(c, bits, op, Masked(bits, r \div 2 + signBit), signBit, n - 1)

\* v >> k and (v << k) & mask for k up to 31
ShiftedRight(v, k) == IF k >= 16 THEN 0 ELSE v \div 2 ^ k

ShiftedLeft(bits, v, k) == IF k >= bits THEN 0 ELSE Masked(bits, v * 2 ^ k)

\* the switch of doShift8 / doShift16 on the masked operand v and count cnt
ShiftBy(c, bits, op, v, cnt) ==
        IF cnt = 0 THEN [c |-> c, r |-> v]
        ELSE CASE op \in {0, 2} ->
                    Let(ShiftLoop(c, bits, op, v, 0, cnt), LAMBDA x :
                        [c |-> IF cnt = 1
                               THEN SetFlag(x.c, FLAGS.OF,
                                            TopBit(bits, x.r) # CarryIn(x.c))
                               ELSE x.c,
                         r |-> x.r])
               [] op \in {1, 3} ->
                    Let(ShiftLoop(c, bits, op, v, 0, cnt), LAMBDA x :
                        [c |-> IF cnt = 1
                               THEN SetFlag(x.c, FLAGS.OF,
                                            TopBit(bits, x.r) # Bit(x.r, bits - 2))
                               ELSE x.c,
                         r |-> x.r])
               [] op \in {4, 6} ->
                    Let(ShiftedLeft(bits, v, cnt), LAMBDA r :
                    Let(UpdateZSP(SetFlag(c, FLAGS.CF,
                                          cnt <= bits /\ Bit(v, bits - cnt) # 0),
                                  bits, r), LAMBDA c1 :
                        [c |-> IF cnt = 1
                               THEN SetFlag(c1, FLAGS.OF, TopBit(bits, r) # CarryIn(c1))
                               ELSE c1,
                         r |-> r]))
               [] op = 5 ->
                    Let(ShiftedRight(v, cnt), LAMBDA r :
                    Let(UpdateZSP(SetFlag(c, FLAGS.CF,
                                          cnt <= bits /\ Bit(v, cnt - 1) # 0),
                                  bits, r), LAMBDA c1 :
                        [c |-> IF cnt = 1
                               THEN SetFlag(c1, FLAGS.OF, TopBit(bits, v) # 0)
                               ELSE c1,
                         r |-> r]))
               [] OTHER ->
                    Let(ShiftLoop(c, bits, 7, v, TopBit(bits, v) * 2 ^ (bits - 1), cnt),
                        LAMBDA x :
                    Let(UpdateZSP(SetFlag(c, FLAGS.CF, ShiftedRight(v, cnt - 1) % 2 # 0),
                                  bits, x.r), LAMBDA c1 :
                        [c |-> IF cnt = 1 THEN SetFlag(c1, FLAGS.OF, FALSE) ELSE c1,
                         r |-> x.r]))

\* a shift whose count is taken whole
DoShiftUnmasked(c, bits, op, val, count) ==
    ShiftBy(c, bits, op, Masked(bits, val), count)

\* doShift8(op, val, cnt) / doShift16(op, val, cnt): v = val & mask,
\* cnt &= 0x1F; the machine with its flags, and the value returned
DoShift(c, bits, op, val, count) ==
    ShiftBy(c, bits, op, Masked(bits, val), count % 32)

\* C0/C1 (count imm8), D0/D1 (count 1), D2/D3 (count CL): c is the machine
\* after the ModRM byte is fetched
ShiftGroup(c, opcode, m) ==
    Let(IF opcode \in {192, 193} THEN FetchedAt(c, 0) % 32
        ELSE IF opcode \in {208, 209} THEN 1 ELSE Lo(c.reg.cx), LAMBDA cnt :
    Let(DoShift(c, Width(opcode), m.reg, ReadRM(c, Width(opcode), m), cnt), LAMBDA x :
        WriteRM(IF opcode \in {192, 193} THEN Advance(x.c, 1) ELSE x.c,
                Width(opcode), m, x.r)))

RECURSIVE Execute(_, _, _)
Execute(c, opcode, st) ==
    CASE opcode = 144 -> c
      [] opcode >= 145 /\ opcode <= 151 ->
            SetReg16(SetAX(c, GetReg16(c, opcode - 144)), opcode - 144, c.reg.ax)
      [] opcode >= 176 /\ opcode <= 183 ->
            SetReg8(Advance(c, 1), opcode - 176, FetchedAt(c, 0))
      [] opcode >= 184 /\ opcode <= 191 ->
            SetReg16(Advance(c, 2), opcode - 184, FetchedAt(c, 0) + 256 * FetchedAt(c, 1))
      [] opcode = 114 ->
            Advance(c, 1 + (IF GetFlag(c, FLAGS.CF) THEN SByte(FetchedAt(c, 0)) + 65536 ELSE 0))
      [] opcode = 116 ->
            Advance(c, 1 + (IF GetFlag(c, FLAGS.ZF) THEN SByte(FetchedAt(c, 0)) + 65536 ELSE 0))
      [] opcode = 235 ->
            Advance(c, 1 + SByte(FetchedAt(c, 0)) + 65536)
      [] opcode = 204 ->
            DoInterrupt(SetFlag(Frame(c), FLAGS.IF_, FALSE), 3, st)
      [] opcode = 205 ->
            DoInterrupt(SetFlag(Frame(Advance(c, 1)), FLAGS.IF_, FALSE), FetchedAt(c, 0), st)
      [] opcode = 206 ->
            IF GetFlag(c, FLAGS.OF) THEN DoInterrupt(Frame(c), 4, st) ELSE c
      [] opcode = 207 ->
            [Drop(Drop(Drop(c))) EXCEPT
                !.reg.ip = Top(c), !.reg.cs = Top(Drop(c)),
                !.reg.flags = IretFlags(Top(Drop(Drop(c))))]
      [] opcode = 195 -> [Drop(c) EXCEPT !.reg.ip = Top(c)]
      [] opcode = 244 -> [c EXCEPT !.halted = TRUE, !.haltReason = "hlt"]
      [] opcode \in {242, 243} ->
            Execute([Advance(c, 1) EXCEPT
                        !.repPrefix = IF opcode = 242 THEN "REPNE" ELSE "REP"],
                    FetchedAt(c, 0), st)
      [] opcode \in {38, 46, 54, 62} ->
            Execute([Advance(c, 1) EXCEPT
                        !.segOverride =
                            <<CASE opcode = 38 -> c.reg.es [] opcode = 46 -> c.reg.cs
                                [] opcode = 54 -> c.reg.ss [] OTHER -> c.reg.ds>>],
                    FetchedAt(c, 0), st)
      [] opcode = 240 -> Execute(Advance(c, 1), FetchedAt(c, 0), st)
      [] opcode \in (164..167) \cup (170..175) -> StrStep(c, opcode)
      [] opcode \in {0, 1, 16, 17, 24, 25, 40, 41, 56, 57} ->
            Alu(Advance(c, 1), opcode, DecodeModRM(FetchedAt(c, 0)))
      [] opcode >= 64 /\ opcode <= 79 -> IncDec16(c, opcode)
      [] opcode \in {254, 255} ->
            IncDecRM(Advance(c, 1), opcode, DecodeModRM(FetchedAt(c, 0)))
      [] opcode = 246 ->
            Grp3Byte(Advance(c, 1), DecodeModRM(FetchedAt(c, 0)).reg,
                     ReadRM(c, 8, DecodeModRM(FetchedAt(c, 0))), st)
      [] opcode = 247 ->
            Grp3Word(Advance(c, 1), DecodeModRM(FetchedAt(c, 0)).reg,
                     ReadRM(c, 16, DecodeModRM(FetchedAt(c, 0))), st)
      [] opcode = 98 -> Bound(Advance(c, 1), DecodeModRM(FetchedAt(c, 0)), st)
      [] opcode \in {192, 193, 208, 209, 210, 211} ->
            ShiftGroup(Advance(c, 1), opcode, DecodeModRM(FetchedAt(c, 0)))
      [] opcode = 14 -> Push(c, c.reg.cs)
      [] opcode >= 80 /\ opcode <= 87 -> Push(c, GetReg16(c, opcode - 80))
      [] opcode >= 88 /\ opcode <= 95 -> SetReg16(Drop(c), opcode - 88, Top(c))
      [] opcode = 104 -> Push(Advance(c, 2), FetchedAt(c, 0) + 256 * FetchedAt(c, 1))
      [] opcode = 156 -> Push(c, c.reg.flags)
      [] opcode = 157 -> [Drop(c) EXCEPT !.reg.flags = IretFlags(Top(c))]
      [] opcode = 158 ->
            [c EXCEPT !.reg.flags = (@ \div 256) * 256 + SahfBits(Hi(c.reg.ax)) + 2]
      [] opcode = 159 -> SetAH(c, c.reg.flags % 256)
      [] opcode = 248 -> SetFlag(c, FLAGS.CF, FALSE)
      [] opcode = 249 -> SetFlag(c, FLAGS.CF, TRUE)
      [] opcode = 250 -> SetFlag(c, FLAGS.IF_, FALSE)
      [] opcode = 251 -> SetFlag(c, FLAGS.IF_, TRUE)
      [] opcode = 252 -> SetFlag(c, FLAGS.DF, FALSE)
      [] opcode = 253 -> SetFlag(c, FLAGS.DF, TRUE)

\* _step(): fetch the opcode, then the switch
StepInstr(c, st) == Execute(Advance(c, 1), FetchedAt(c, 0), st)

\* a step that leaves the prefix fields as the last instruction left them
KeepPrefixes(c) == c

\* step(): this.segOverride = null; this.repPrefix = null
ClearPrefixes(c) == [c EXCEPT !.segOverride = <<>>, !.repPrefix = ""]

Step(c, st) ==
    IF c.halted THEN c
    ELSE IF c.waitCycles > 0 THEN [c EXCEPT !.waitCycles = @ - 1]
    ELSE StepInstr(ClearPrefixes(c), st)

(***************************************************************************)
(* The state machines.                                                     *)
(***************************************************************************)
\* no program session
NoStep == [op |-> "none", reg |-> Registers, keys |-> <<>>, handles |-> EmptyMap,
           opcode |-> 0, vec |-> 0, hflags |-> 0, woke |-> FALSE, key |-> 0,
           afterWake |-> FALSE, wakeKey |-> 0, mem |-> EmptyMap, hist |-> <<>>,
           left |-> <<<<>>, "">>, entry |-> <<<<>>, "">>]

CpuIdle ==
    /\ running = FALSE
    /\ reg = Registers
    /\ mem = EmptyMap
    /\ halted = FALSE
    /\ haltReason = ""
    /\ waitCycles = 0
    /\ segOverride = <<>>
    /\ repPrefix = ""
    /\ biosKeyBuffer = <<>>
    /\ handles = EmptyMap
    /\ nextHandle = 5
    /\ last = NoStep
    /\ pushed = <<>>
    /\ delivered = <<>>
    /\ wrote = EmptyMap
    /\ biosCursorRow = 0
    /\ biosCursorCol = 0
    /\ diskReadHandler = FALSE
    /\ tickLoop = "stopped"

FsInit ==
    /\ \E d \in FsInitDisks :
          /\ cache = d.cache
          /\ dirty = d.dirty
          /\ store = d.store
    /\ fsLast = NoOp
    /\ nops = 0
    /\ CpuIdle

FsFormat ==
    /\ nops < MaxOps
    /\ SetDisk(Format(Disk))
    /\ fsLast' = [NoOp EXCEPT !.op = "format", !.ret = "ok", !.fresh = IsFresh(Disk)]
    /\ nops' = nops + 1
    /\ UNCHANGED cpuVars

FsWriteFile ==
    /\ nops < MaxOps
    /\ \E p \in FsPaths, n \in FsNames, len \in DataLens, st \in Stamps :
          \E r \in {WriteFile(Disk, p, n, DataOf(len), st[1], st[2])} :
              /\ SetDisk(r.d)
              /\ fsLast' = [op |-> "writeFile", parts |-> p, name |-> n,
                            name2 |-> <<>>, data |-> DataOf(len), ret |-> r.ret,
                            fresh |-> IsFresh(Disk)]
    /\ nops' = nops + 1
    /\ UNCHANGED cpuVars

FsMkdir ==
    /\ nops < MaxOps
    /\ \E p \in FsPaths, n \in FsNames, st \in Stamps :
          \E r \in {Mkdir(Disk, p, n, st[1], st[2])} :
              /\ SetDisk(r.d)
              /\ fsLast' = [op |-> "mkdir", parts |-> p, name |-> n,
                            name2 |-> <<>>, data |-> <<>>, ret |-> r.ret,
                            fresh |-> FALSE]
    /\ nops' = nops + 1
    /\ UNCHANGED cpuVars

FsDeleteEntry ==
    /\ nops < MaxOps
    /\ \E p \in FsPaths, n \in FsNames :
          \E r \in {DeleteEntry(Disk, p, n)} :
              /\ SetDisk(r.d)
              /\ fsLast' = [op |-> "deleteEntry", parts |-> p, name |-> n,
                            name2 |-> <<>>, data |-> <<>>, ret |-> r.ret,
                            fresh |-> FALSE]
    /\ nops' = nops + 1
    /\ UNCHANGED cpuVars

FsRenameEntry ==
    /\ nops < MaxOps
    /\ \E p \in FsPaths, o \in FsNames, n \in FsNames :
          \E r \in {RenameEntry(Disk, p, o, n)} :
              /\ SetDisk(r.d)
              /\ fsLast' = [op |-> "renameEntry", parts |-> p, name |-> o,
                            name2 |-> n, data |-> <<>>, ret |-> r.ret,
                            fresh |-> FALSE]
    /\ nops' = nops + 1
    /\ UNCHANGED cpuVars

\* a new session: new FAT12Disk() over the same localStorage
FsReload ==
    /\ nops < MaxOps
    /\ cache' = EmptyMap
    /\ dirty' = {}
    /\ store' = store
    /\ fsLast' = [NoOp EXCEPT !.op = "reload"]
    /\ nops' = nops + 1
    /\ UNCHANGED cpuVars

FsNext ==
    \/ FsFormat
    \/ FsWriteFile
    \/ FsMkdir
    \/ FsDeleteEntry
    \/ FsRenameEntry
    \/ FsReload

SpecFS == FsInit /\ [][FsNext]_vars

(***************************************************************************)
(* A program session (_execCOM): a .COM image at 0000:0100 stepped by the  *)
(* tick loop, with the host key pump running beside it.                    *)
(***************************************************************************)
\* INT 20h
ProgExit == <<205, 32>>

\* MOV AH,01 / INT 16h / JZ +1 / NOP / MOV AH,11h / INT 16h / INT 20h
ProgPeek == <<180, 1, 205, 22, 116, 1, 144, 180, 17, 205, 22, 205, 32>>

\* MOV AH,00 / INT 16h / MOV AH,10h / INT 16h / JMP -10
ProgKeys == <<180, 0, 205, 22, 180, 16, 205, 22, 235, 246>>

\* INT 19h
ProgBoot == <<205, 25>>

\* INT 3
ProgInt3 == <<204>>

\* INTO / HLT
ProgInto == <<206, 244>>

\* MOV DX,name / MOV CX,0 / MOV AH,3Ch / INT 21h / XCHG AX,BX /
\* MOV DX,data / MOV CX,3 / MOV AH,40h / INT 21h / MOV AH,3Eh / INT 21h /
\* INT 20h / name: "t.txt",0 / data: "abc"
ProgFile ==
    <<186, 27, 1, 185, 0, 0, 180, 60, 205, 33, 147, 186, 33, 1, 185, 3, 0,
      180, 64, 205, 33, 180, 62, 205, 33, 205, 32,
      116, 46, 116, 120, 116, 0, 97, 98, 99>>

\* MOV DX,name / MOV AX,3D00h / INT 21h / JC +1 / NOP / MOV BX,9 /
\* MOV AH,3Eh / INT 21h / INT 20h / name: "N.TXT",0
ProgOpen ==
    <<186, 20, 1, 184, 0, 61, 205, 33, 114, 1, 144, 187, 9, 0, 180, 62,
      205, 33, 205, 32, 78, 46, 84, 88, 84, 0>>

\* MOV AH,00 / INT 16h / INT 20h
ProgWait == <<180, 0, 205, 22, 205, 32>>

\* MOV DX,spec / MOV AH,4Eh / INT 21h / INT 20h / spec: pattern,0
ProgFind(pattern) == <<186, 9, 1, 180, 78, 205, 33, 205, 32>> \o pattern \o <<0>>

\* MOV AH,00 / INT 16h / MOV DX,spec / MOV AH,4Eh / INT 21h / INT 20h / spec: "[",0
ProgWaitFind == <<180, 0, 205, 22, 186, 13, 1, 180, 78, 205, 33, 205, 32, 91, 0>>

\* PUSH AX / POP AX / RET
ProgRet == <<80, 88, 195>>

Images ==
    {ProgRet, ProgExit, ProgPeek, ProgKeys, ProgBoot, ProgInt3, ProgInto, ProgFile, ProgOpen,
     ProgWait, ProgFind(AnyFile), ProgFind(<<91>>), ProgFind(<<91, 65, 93, 42>>),
     ProgWaitFind}

\* (scancode, ascii) of the keys a, b
KeyStrokes == {<<30, 97>>, <<48, 98>>}

Cpu ==
    [reg |-> reg, mem |-> mem, halted |-> halted, haltReason |-> haltReason,
     waitCycles |-> waitCycles, biosKeyBuffer |-> biosKeyBuffer,
     handles |-> handles, nextHandle |-> nextHandle, d |-> Disk,
     hflags |-> reg.flags, segOverride |-> segOverride, repPrefix |-> repPrefix,
     diskReadHandler |-> diskReadHandler, biosCursorRow |-> biosCursorRow,
     biosCursorCol |-> biosCursorCol, threw |-> FALSE]

SetCpu(c) ==
    /\ reg' = c.reg
    /\ mem' = c.mem
    /\ halted' = c.halted
    /\ haltReason' = c.haltReason
    /\ waitCycles' = c.waitCycles
    /\ segOverride' = c.segOverride
    /\ repPrefix' = c.repPrefix
    /\ biosKeyBuffer' = c.biosKeyBuffer
    /\ handles' = c.handles
    /\ nextHandle' = c.nextHandle
    /\ diskReadHandler' = c.diskReadHandler
    /\ biosCursorRow' = c.biosCursorRow
    /\ biosCursorCol' = c.biosCursorCol
    /\ SetDisk(c.d)

\* the steps before this one, the latest last, at most three
History(l) ==
    IF l.op # "step" THEN <<>>
    ELSE SubSeq(l.hist \o <<[opcode |-> l.opcode, reg |-> l.reg]>>,
                Max(1, Len(l.hist) - 1), Len(l.hist) + 1)

\* the register forms and the [reg] forms of a ModRM byte
RegForm(byte) == byte \div 64 = 3

\* the instructions and services the model covers, for the opcode k bytes
\* after CS:IP
SupportedAt(c, k) ==
    \/ FetchedAt(c, k) \in (144..151) \cup (176..191) \cup {114, 116, 195, 204, 206, 207, 235, 244}
    \/ FetchedAt(c, k) \in (64..95) \cup {14, 104} \cup (156..159) \cup (248..253)
    \/ FetchedAt(c, k) \in (164..167) \cup (170..175)
    \/ /\ FetchedAt(c, k) \in {0, 1, 16, 17, 24, 25, 40, 41, 56, 57}
       /\ RegForm(FetchedAt(c, k + 1))
    \/ /\ FetchedAt(c, k) \in {254, 255}
       /\ RegForm(FetchedAt(c, k + 1))
       /\ DecodeModRM(FetchedAt(c, k + 1)).reg \in {0, 1}
    \/ /\ FetchedAt(c, k) \in {246, 247}
       /\ RegForm(FetchedAt(c, k + 1))
       /\ DecodeModRM(FetchedAt(c, k + 1)).reg \in 4..7
    \/ /\ FetchedAt(c, k) \in {192, 193, 208, 209, 210, 211}
       /\ RegForm(FetchedAt(c, k + 1))
    \/ /\ FetchedAt(c, k) = 98
       /\ FetchedAt(c, k + 1) \div 64 = 0
       /\ FetchedAt(c, k + 1) % 8 # 6
    \/ /\ FetchedAt(c, k) = 205
       /\ \/ FetchedAt(c, k + 1) \notin Registered
          \/ FetchedAt(c, k + 1) \in {22, 23, 25, 32, 34, 35, 36, 39, 40}
          \/ FetchedAt(c, k + 1) = 19 /\ Hi(c.reg.ax) \in {0, 2}
          \/ FetchedAt(c, k + 1) = 16 /\ Hi(c.reg.ax) \in {2, 14}
          \/ /\ FetchedAt(c, k + 1) = 33
             /\ \/ Hi(c.reg.ax) \in {60, 61, 62, 76}
                \/ /\ Hi(c.reg.ax) = 78
                   /\ \A i \in 1..Len(PatternOf(c).pattern) :
                         PatternOf(c).pattern[i] \in (48..57) \cup (65..90)
                                                        \cup {42, 46, 63, 91, 93}
                   /\ \/ RegExpThrows(PatternOf(c).pattern)
                      \/ Len(ListDir(c.d, CwdParts \o PatternOf(c).dp).entries) = 0
                \/ Hi(c.reg.ax) = 64 /\ (c.reg.bx \notin {1, 2} \/ c.reg.cx = 0)

\* the prefix bytes the model covers: ES: CS: SS: DS: LOCK REPNE REP
Prefixes == {38, 46, 54, 62, 240, 242, 243}

\* an instruction of the model, behind at most two prefix bytes
Supported(c) ==
    \/ SupportedAt(c, 0)
    \/ FetchedAt(c, 0) \in Prefixes /\ SupportedAt(c, 1)
    \/ /\ FetchedAt(c, 0) \in Prefixes
       /\ FetchedAt(c, 1) \in Prefixes
       /\ SupportedAt(c, 2)

\* the bytes DS:DX .. of a write request of CX bytes
Request(c) == [i \in 1..c.reg.cx |-> Read8(c, Segmented(c.reg.ds, c.reg.dx) + i - 1)]

IsInt(l, vector) == l.op = "step" /\ l.opcode = 205 /\ l.vec = vector

\* _execCOM(): the machine as the session starts
CpuInit ==
    /\ \E d \in {FreshDisk} :
          /\ cache = d.cache
          /\ dirty = d.dirty
          /\ store = d.store
    /\ fsLast = NoOp
    /\ nops = 0
    /\ running = TRUE
    /\ reg = [Registers EXCEPT !.cs = 0, !.ip = 256, !.ds = 0, !.es = 0,
                               !.ss = 0, !.sp = 65532]
    /\ \E img \in Images : mem = Load(img)
    /\ halted = FALSE
    /\ haltReason = ""
    /\ waitCycles = 0
    /\ segOverride = <<>>
    /\ repPrefix = ""
    /\ biosKeyBuffer = <<>>
    /\ handles = EmptyMap
    /\ nextHandle = 5
    /\ last = NoStep
    /\ pushed = <<>>
    /\ delivered = <<>>
    /\ wrote = EmptyMap
    /\ biosCursorRow = 0
    /\ biosCursorCol = 0
    /\ diskReadHandler \in BOOLEAN
    /\ tickLoop = "first"

\* one cpu.step() of the tick loop
CpuStep ==
    /\ running
    /\ tickLoop # "stopped"
    /\ ~halted
    /\ Supported(Cpu)
    /\ \E st \in Stamps :
          \E n \in {Step(Cpu, st)} :
              /\ SetCpu(n)
              /\ running' = (running /\ ~(n.threw /\ tickLoop = "first"))
              /\ tickLoop' = IF n.threw THEN "stopped" ELSE tickLoop
              /\ last' = [op |-> IF n.threw THEN "throw" ELSE "step",
                          reg |-> reg, keys |-> biosKeyBuffer,
                          handles |-> handles,
                          opcode |-> FetchedAt(Cpu, 0), vec |-> FetchedAt(Cpu, 1),
                          hflags |-> n.hflags, woke |-> FALSE, key |-> 0,
                          afterWake |-> last.woke, wakeKey |-> last.key,
                          mem |-> mem, hist |-> History(last),
                          left |-> <<segOverride, repPrefix>>,
                          entry |-> <<ClearPrefixes(Cpu).segOverride,
                                      ClearPrefixes(Cpu).repPrefix>>]
              /\ delivered' =
                    IF /\ FetchedAt(Cpu, 0) = 205 /\ FetchedAt(Cpu, 1) = 22
                       /\ Hi(reg.ax) \in {0, 16} /\ ~n.halted
                    THEN Append(delivered, n.reg.ax)
                    ELSE delivered
    /\ wrote' =
          IF /\ FetchedAt(Cpu, 0) = 205 /\ FetchedAt(Cpu, 1) = 33
             /\ Hi(reg.ax) = 64 /\ reg.bx \in DOMAIN handles
          THEN (reg.bx :> ((IF reg.bx \in DOMAIN wrote THEN wrote[reg.bx] ELSE <<>>)
                               \o Request(Cpu))) @@ wrote
          ELSE wrote
    /\ UNCHANGED <<pushed, fsLast, nops>>

\* halted, once the host key pump has woken the interpreter
Woken == FALSE

\* the host key pump: pushKey(scancode, ascii), and the interpreter woken
KeyPump ==
    /\ running
    /\ ~halted \/ haltReason = "key_wait"
    /\ Len(pushed) < MaxKeys
    /\ \E k \in KeyStrokes :
          /\ biosKeyBuffer' = PushKey(biosKeyBuffer, k[1], k[2])
          /\ pushed' = Append(pushed, k[1] * 256 + k[2])
          /\ last' = [NoStep EXCEPT
                        !.op = "key",
                        !.woke = halted \/ last.woke,
                        !.key = IF last.woke THEN last.key
                                ELSE IF halted THEN k[1] * 256 + k[2] ELSE 0]
    /\ halted' = Woken
    /\ tickLoop' = IF tickLoop = "first" THEN "frame" ELSE tickLoop
    /\ UNCHANGED <<reg, mem, haltReason, waitCycles, segOverride, repPrefix,
                   handles, nextHandle, cache, dirty, store, running, delivered,
                   wrote, diskReadHandler, biosCursorRow, biosCursorCol,
                   fsLast, nops>>

\* the handles written back by the tick that finds the program ended
RECURSIVE FlushHandles(_, _, _, _)
FlushHandles(d, hs, todo, st) ==
    IF todo = {} THEN d
    ELSE Let(MinOf(todo), LAMBDA h :
            FlushHandles(IF hs[h].modified /\ hs[h].hasBuf
                         THEN WriteFile(d, hs[h].dirParts, hs[h].name, hs[h].buf,
                                        st[1], st[2]).d
                         ELSE d,
                         hs, todo \ {h}, st))

\* a tick that finds the program ended, writes the files back and leaves
\* the session marked as running
EndSessionRunning ==
    /\ running
    /\ halted
    /\ haltReason \in {"program_exit", "hlt"}
    /\ tickLoop # "stopped"
    /\ tickLoop' = "stopped"
    /\ \E st \in Stamps :
          SetDisk(Flush(FlushHandles(Disk, handles, DOMAIN handles, st)))
    /\ last' = [NoStep EXCEPT !.op = "end"]
    /\ UNCHANGED <<running, reg, mem, halted, haltReason, waitCycles, segOverride,
                   repPrefix, biosKeyBuffer, handles, nextHandle, pushed,
                   delivered, wrote, diskReadHandler, biosCursorRow, biosCursorCol,
                   fsLast, nops>>

\* the tick after the program halted with 'program_exit' or 'hlt'
EndSession ==
    /\ running
    /\ halted
    /\ haltReason \in {"program_exit", "hlt"}
    /\ tickLoop # "stopped"
    /\ tickLoop' = "stopped"
    /\ \E st \in Stamps :
          SetDisk(Flush(FlushHandles(Disk, handles, DOMAIN handles, st)))
    /\ running' = FALSE
    /\ last' = [NoStep EXCEPT !.op = "end"]
    /\ UNCHANGED <<reg, mem, halted, haltReason, waitCycles, segOverride,
                   repPrefix, biosKeyBuffer, handles, nextHandle, pushed,
                   delivered, wrote, diskReadHandler, biosCursorRow, biosCursorCol,
                   fsLast, nops>>

\* the first tick returns with the program still going (14 ms have passed,
\* or it waits for a key) and has scheduled the next one
TickEnd ==
    /\ running
    /\ tickLoop = "first"
    /\ ~halted \/ haltReason = "key_wait"
    /\ tickLoop' = "frame"
    /\ UNCHANGED <<running, reg, mem, halted, haltReason, waitCycles, segOverride,
                   repPrefix, biosKeyBuffer, handles, nextHandle, last, pushed,
                   delivered, wrote, diskReadHandler, biosCursorRow,
                   biosCursorCol, cache, dirty, store, fsLast, nops>>

CpuNext ==
    \/ CpuStep
    \/ KeyPump
    \/ TickEnd
    \/ EndSession

SpecCPU == CpuInit /\ [][CpuNext]_vars

(***************************************************************************)
(* Instruction sessions: short .COM programs that load their operands with *)
(* MOV, set the flags with STC/CLC, STD/CLD, SAHF or POPF, execute one     *)
(* instruction under study and stop at HLT.                                *)
(***************************************************************************)
\* the two bytes of a 16-bit immediate
Imm16(v) == <<v % 256, v \div 256>>

Zeros(n) == [i \in 1..n |-> 0]

MaxCount == 3

\* "AAAB" "AAAA" "CAAA", at offset StrData of the segment: after the 19
\* bytes of code at 0100h and 8 zero bytes
StrBytes == <<65, 65, 65, 66, 65, 65, 65, 65, 67, 65, 65, 65>>

StrData == 256 + 19 + 8

\* MOV AH,zf / SAHF / CLD|STD / MOV AX,4141h / MOV CX,n / MOV SI,si /
\* MOV DI,di / REPNE|REP / op / HLT / 8 zero bytes / StrBytes
ProgString(repByte, op, n, zf, df, si, di) ==
    <<180, zf, 158, df, 184>> \o Imm16(16705) \o <<185>> \o Imm16(n)
        \o <<190>> \o Imm16(si) \o <<191>> \o Imm16(di)
        \o <<repByte, op, 244>> \o Zeros(8) \o StrBytes

StringImages ==
    {ProgString(r, op, n, zf, df, p[1], p[2]) :
        r \in {242, 243}, op \in (164..167) \cup (170..175),
        n \in {0, 1, MaxCount}, zf \in {0, 64}, df \in {252, 253},
        p \in {<<StrData, StrData + 4>>, <<StrData + 3, StrData + 8>>}}

AluVals == {0, 1, 32639, 32896, 65535, 32767, 32768}

\* CLC|STC / MOV AX,a / MOV BX,b / op AX,BX or op AL,BL / HLT
ProgAlu(cf, op, a, b) ==
    <<cf, 184>> \o Imm16(a) \o <<187>> \o Imm16(b) \o <<op, 216, 244>>

\* CLC|STC / MOV AX,a / INC or DEC of AX or AL / HLT
ProgIncDec(cf, form, a) == <<cf, 184>> \o Imm16(a) \o form \o <<244>>

AluImages ==
    {ProgAlu(cf, op, a, b) :
        cf \in {248, 249}, op \in {0, 1, 16, 17, 24, 25, 40, 41, 56, 57},
        a \in AluVals, b \in AluVals}
    \cup
    {ProgIncDec(cf, form, a) :
        cf \in {248, 249},
        form \in {<<64>>, <<72>>, <<254, 192>>, <<254, 200>>, <<255, 192>>, <<255, 200>>},
        a \in AluVals}

\* MOV AX,a / MOV DX,d / MOV BX,b / F6|F7 /4../7 on BL|BX / HLT
ProgMulDiv(opc, modrm, a, d, b) ==
    <<184>> \o Imm16(a) \o <<186>> \o Imm16(d) \o <<187>> \o Imm16(b)
        \o <<opc, modrm, 244>>

MulDivImages ==
    {ProgMulDiv(opc, modrm, a, d, b) :
        opc \in {246, 247}, modrm \in {227, 235, 243, 251},
        a \in {7, 65529, 32768, 65535, 256}, d \in {0, 65535},
        b \in {0, 2, 65534, 3}}

\* MOV BX,table / MOV AX,val / BOUND AX,[BX] / HLT / table: 2, 8
ProgBound(val) == <<187, 9, 1, 184>> \o Imm16(val) \o <<98, 7, 244, 2, 0, 8, 0>>

\* MOV AX,f / PUSH AX / POPF / the interrupt instruction
ProgInt(f, tail) == <<184>> \o Imm16(f) \o <<80, 157>> \o tail

\* CLC|STC / CLD|STD / PUSHF / PUSH CS / PUSH target / IRET / NOP / HLT
ProgIret(cf, df, target) ==
    <<cf, df, 156, 14, 104>> \o Imm16(target) \o <<207, 144, 244>>

ControlImages ==
    {ProgBound(val) : val \in {0, 5, 9, 65535}}
    \cup
    {ProgInt(f, tail) :
        f \in {2, 770, 2050, 2562, 2818},
        tail \in {<<205, 96>>, <<204>>, <<206, 244>>}}
    \cup
    {ProgIret(cf, df, target) :
        cf \in {248, 249}, df \in {252, 253}, target \in {264, 265}}

InstrImages == StringImages \cup AluImages \cup MulDivImages \cup ControlImages

\* MOV AX,f / PUSH AX / POPF / MOV AX,val / MOV CL,cl / the shift / HLT
ProgShift(f, val, cl, form) ==
    <<184>> \o Imm16(f) \o <<80, 157, 184>> \o Imm16(val) \o <<177, cl>>
        \o form \o <<244>>

\* counts that mask to 0, 1 and more, below and above the operand widths
ShiftCounts == {0, 1, 2, 9, 32, 33}

\* the shift group on AL and AX: by 1 (D0/D1), by CL (D2/D3), by imm8 (C0/C1)
ShiftForms ==
    {<<opc, 192 + 8 * op>> : opc \in {208, 209, 210, 211}, op \in 0..7}
    \cup
    {<<opc, 192 + 8 * op, n>> : opc \in {192, 193}, op \in 0..7, n \in ShiftCounts}

ShiftImages ==
    {ProgShift(f, val, cl, form) :
        f \in {2, 3, 2051}, val \in {32961, 16448, 384, 49152},
        cl \in ShiftCounts, form \in ShiftForms}

\* _execCOM(): the machine as an instruction session starts
InstrInit ==
    /\ \E d \in {FreshDisk} :
          /\ cache = d.cache
          /\ dirty = d.dirty
          /\ store = d.store
    /\ fsLast = NoOp
    /\ nops = 0
    /\ running = TRUE
    /\ reg = [Registers EXCEPT !.cs = 0, !.ip = 256, !.ds = 0, !.es = 0,
                               !.ss = 0, !.sp = 65532]
    /\ \E img \in InstrImages : mem = Load(img)
    /\ halted = FALSE
    /\ haltReason = ""
    /\ waitCycles = 0
    /\ segOverride = <<>>
    /\ repPrefix = ""
    /\ biosKeyBuffer = <<>>
    /\ handles = EmptyMap
    /\ nextHandle = 5
    /\ last = NoStep
    /\ pushed = <<>>
    /\ delivered = <<>>
    /\ wrote = EmptyMap
    /\ biosCursorRow = 0
    /\ biosCursorCol = 0
    /\ diskReadHandler = FALSE
    /\ tickLoop = "first"

InstrNext ==
    \/ CpuStep
    \/ EndSession

SpecInstr == InstrInit /\ [][InstrNext]_vars

\* _execCOM(): the machine as a session on one of the shift programs starts
ShiftInit ==
    /\ \E d \in {FreshDisk} :
          /\ cache = d.cache
          /\ dirty = d.dirty
          /\ store = d.store
    /\ fsLast = NoOp
    /\ nops = 0
    /\ running = TRUE
    /\ reg = [Registers EXCEPT !.cs = 0, !.ip = 256, !.ds = 0, !.es = 0,
                               !.ss = 0, !.sp = 65532]
    /\ \E img \in ShiftImages : mem = Load(img)
    /\ halted = FALSE
    /\ haltReason = ""
    /\ waitCycles = 0
    /\ segOverride = <<>>
    /\ repPrefix = ""
    /\ biosKeyBuffer = <<>>
    /\ handles = EmptyMap
    /\ nextHandle = 5
    /\ last = NoStep
    /\ pushed = <<>>
    /\ delivered = <<>>
    /\ wrote = EmptyMap
    /\ biosCursorRow = 0
    /\ biosCursorCol = 0
    /\ diskReadHandler = FALSE
    /\ tickLoop = "first"

SpecShift == ShiftInit /\ [][InstrNext]_vars

\* MOV AX,0 / MOV CX,2 / MOV SI,0100h / MOV DI,0200h / the prefixes and the
\* instruction under them / MOVSB / LODSB / HLT
ProgPrefix(pre, body) ==
    <<184, 0, 0, 185, 2, 0, 190, 0, 1, 191, 0, 2>> \o pre \o body \o <<164, 172, 244>>

\* under the prefixes: NOP, MOVSB, CMPSW, INT 60h (no handler), INT 16h
\* AH=0 (waits for a key), HLT, MOV AX,1
PrefixImages ==
    {ProgPrefix(pre, body) :
        pre \in {<<>>, <<243>>, <<242>>, <<38>>, <<54>>, <<240>>, <<38, 243>>, <<242, 46>>},
        body \in {<<144>>, <<164>>, <<167>>, <<205, 96>>, <<205, 22>>, <<244>>,
                  <<184, 1, 0>>}}

\* _execCOM(): the machine as a session on one of the prefix programs starts
PrefixInit ==
    /\ \E d \in {FreshDisk} :
          /\ cache = d.cache
          /\ dirty = d.dirty
          /\ store = d.store
    /\ fsLast = NoOp
    /\ nops = 0
    /\ running = TRUE
    /\ reg = [Registers EXCEPT !.cs = 0, !.ip = 256, !.ds = 0, !.es = 0,
                               !.ss = 0, !.sp = 65532]
    /\ \E img \in PrefixImages : mem = Load(img)
    /\ halted = FALSE
    /\ haltReason = ""
    /\ waitCycles = 0
    /\ segOverride = <<>>
    /\ repPrefix = ""
    /\ biosKeyBuffer = <<>>
    /\ handles = EmptyMap
    /\ nextHandle = 5
    /\ last = NoStep
    /\ pushed = <<>>
    /\ delivered = <<>>
    /\ wrote = EmptyMap
    /\ biosCursorRow = 0
    /\ biosCursorCol = 0
    /\ diskReadHandler = FALSE
    /\ tickLoop = "first"

SpecPrefix == PrefixInit /\ [][CpuNext]_vars

(***************************************************************************)
(* Teletype sessions: programs that put X at (1, 5) and Y at (24, 3), move *)
(* the cursor (AH=02h takes any DH, DL), and print one character and then  *)
(* Z.                                                                      *)
(***************************************************************************)
\* MOV AH,2 / MOV DX,row:col / INT 10h / MOV AX,0E00h+ch / INT 10h
PutAt(row, col, ch) == <<180, 2, 186, col, row, 205, 16, 184, ch, 14, 205, 16>>

\* ... / MOV AL,'Z' / INT 10h / HLT
ProgTty(row, col, ch) ==
    PutAt(1, 5, 88) \o PutAt(24, 3, 89) \o PutAt(row, col, ch) \o <<176, 90, 205, 16, 244>>

TtyChars == {7, 8, 10, 13, 32, 65}

\* DH and DL of the set-cursor call: inside the grid, and past its last
\* row and column
TtyRows == {0, 23, 24, 30}

TtyCols == {0, 1, 78, 79, 200}

TtyImages ==
    {ProgTty(row, col, ch) : row \in TtyRows, col \in TtyCols, ch \in TtyChars}

\* _execCOM(): the machine as a session on one of the teletype programs starts
TtyInit ==
    /\ \E d \in {FreshDisk} :
          /\ cache = d.cache
          /\ dirty = d.dirty
          /\ store = d.store
    /\ fsLast = NoOp
    /\ nops = 0
    /\ running = TRUE
    /\ reg = [Registers EXCEPT !.cs = 0, !.ip = 256, !.ds = 0, !.es = 0,
                               !.ss = 0, !.sp = 65532]
    /\ \E img \in TtyImages : mem = Load(img)
    /\ halted = FALSE
    /\ haltReason = ""
    /\ waitCycles = 0
    /\ segOverride = <<>>
    /\ repPrefix = ""
    /\ biosKeyBuffer = <<>>
    /\ handles = EmptyMap
    /\ nextHandle = 5
    /\ last = NoStep
    /\ pushed = <<>>
    /\ delivered = <<>>
    /\ wrote = EmptyMap
    /\ biosCursorRow = 0
    /\ biosCursorCol = 0
    /\ diskReadHandler = FALSE
    /\ tickLoop = "first"

SpecTty == TtyInit /\ [][InstrNext]_vars

(***************************************************************************)
(* Properties of the FAT12 engine (specification SpecFS).                  *)
(***************************************************************************)
Mutating == {"format", "writeFile", "mkdir", "deleteEntry", "renameEntry"}

\* C1: after a successful writeFile(parts, name, bytes), readFile(parts,
\* name) returns exactly bytes (empty, within one cluster, or longer)
C1_RoundTrip ==
    (fsLast.op = "writeFile" /\ fsLast.ret = "ok")
        => ReadFile(Disk, fsLast.parts, fsLast.name)
              = [found |-> TRUE, data |-> fsLast.data]

\* C2: at the end of each public mutating operation the nine sectors of
\* FAT1 and the nine sectors of FAT2 hold the same bytes, also when an
\* entry written lies across two sectors
C2_FatMirror ==
    fsLast.op \in Mutating
        => \A i \in 0..(SECTORS_PER_FAT - 1) :
              Sec(Disk, FAT1_START + i) = Sec(Disk, FAT2_START + i)

\* a mutating operation has written the entry of cluster 341, whose second
\* byte is the first byte of the second sector of each FAT
C2_Straddle ==
    /\ fsLast.op \in Mutating
    /\ fsLast.ret = "ok"
    /\ GetFAT(Disk, 341) # 0
    /\ R8(Disk, FAT1_START + 1, 0) # 0
    /\ R8(Disk, FAT2_START + 1, 0) # 0

\* the cluster chain of a file entry is as long as its size needs, and ends
ChainOk(d, e) ==
    \/ e.cluster = 0 /\ e.size = 0
    \/ Let(ChainOf(d, e.cluster), LAMBDA ch :
          /\ Len(ch) > 0
          /\ GetFAT(d, ch[Len(ch)]) >= 4088
          /\ Len(ch) * 512 >= e.size
          /\ Len(ch) * 512 < e.size + 512)

FilesIn(d, parts) ==
    SelectSeq(EnumEntries(d, ResolveDirSectors(d, parts)),
              LAMBDA e : ~IsDirAttr(e.attr))

\* C3: every live file entry has first cluster 0 and size 0, or a chain of
\* L clusters that ends in an end-of-chain value with size <= 512 L < size + 512
C3_Chains ==
    \A p \in FsPaths :
        \A i \in 1..Len(FilesIn(Disk, p)) : ChainOk(Disk, FilesIn(Disk, p)[i])

\* C4: on a freshly formatted disk writeFile([], name, bytes) with n > 0
\* bytes leaves an entry with first cluster 2, attribute 0x20 and size n,
\* and the FAT links 2 -> 3 -> ... -> 1 + ceil(n / 512), the last one
\* holding an end-of-chain value
C4_FreshWrite ==
    (/\ fsLast.op = "writeFile" /\ fsLast.ret = "ok" /\ fsLast.fresh
     /\ fsLast.parts = <<>> /\ Len(fsLast.data) > 0)
        => Let(EnumEntries(Disk, RootSecs), LAMBDA es :
           Let(FindFile(es, fsLast.name), LAMBDA i :
              /\ i # 0
              /\ es[i].cluster = 2
              /\ es[i].attr = 32
              /\ es[i].size = Len(fsLast.data)
              /\ \A c \in 2..((Len(fsLast.data) + 511) \div 512) : GetFAT(Disk, c) = c + 1
              /\ GetFAT(Disk, 1 + ((Len(fsLast.data) + 511) \div 512)) >= 4088))

\* C5: the dirty set is empty at the end of every public mutating
\* operation, however the operation ends
C5_Clean == fsLast.op \in Mutating => dirty = {}

(***************************************************************************)
(* Properties of a program session (specification SpecCPU).                *)
(***************************************************************************)
\* the step was an INT n, INT 3 or taken INTO whose vector has a handler
Handled(l) ==
    /\ l.op = "step"
    /\ \/ l.opcode = 205 /\ l.vec \in Registered
       \/ l.opcode = 204 /\ 3 \in Registered
       \/ l.opcode = 206 /\ FlagOf(l.reg.flags, FLAGS.OF) /\ 4 \in Registered

\* C6: the flags a synthetic handler sets on return are the flags the guest
\* sees after the INT: a failed open returns AX=2 with CF=1, and INT 16h
\* AH=01h/11h returns ZF=1 exactly when the key buffer is empty
C6_Flags ==
    /\ Handled(last)
          => /\ FlagOf(reg.flags, FLAGS.CF) = FlagOf(last.hflags, FLAGS.CF)
             /\ FlagOf(reg.flags, FLAGS.ZF) = FlagOf(last.hflags, FLAGS.ZF)
    /\ (IsInt(last, 22) /\ Hi(last.reg.ax) \in {1, 17})
          => (FlagOf(reg.flags, FLAGS.ZF) <=> last.keys = <<>>)
    /\ (IsInt(last, 33) /\ Hi(last.reg.ax) = 61 /\ handles = last.handles)
          => (reg.ax = 2 /\ FlagOf(reg.flags, FLAGS.CF))

\* C7: a write (AH=40h) of n bytes to a handle returned by a create
\* (AH=3Ch) reports n bytes written, and once the handle is closed
\* (AH=3Eh) readFile of that name returns the bytes written
C7_FileWrite ==
    /\ (/\ IsInt(last, 33) /\ Hi(last.reg.ax) = 64
        /\ last.reg.bx \in DOMAIN last.handles)
          => reg.ax = last.reg.cx
    /\ (/\ IsInt(last, 33) /\ Hi(last.reg.ax) = 62
        /\ last.reg.bx \in DOMAIN last.handles
        /\ last.reg.bx \in DOMAIN wrote)
          => ReadFile(Disk, last.handles[last.reg.bx].dirParts,
                      last.handles[last.reg.bx].name)
                = [found |-> TRUE, data |-> wrote[last.reg.bx]]

\* C8: an interrupt instruction whose vector has a handler leaves SP as it
\* was before the instruction, halted or not; INT 20h halts the program
\* with reason program_exit and SP unchanged
C8_Balanced ==
    /\ Handled(last) => reg.sp = last.reg.sp
    /\ IsInt(last, 32)
          => halted /\ haltReason = "program_exit" /\ reg.sp = last.reg.sp

\* C9: INT 16h AH=00h/10h on an empty key buffer halts the machine with
\* reason key_wait, IP back on the CD 16, and CS, SP, AX and the key buffer
\* as they were
C9_KeyWait ==
    (IsInt(last, 22) /\ Hi(last.reg.ax) \in {0, 16} /\ last.keys = <<>>)
        => /\ halted
           /\ haltReason = "key_wait"
           /\ reg.ip = last.reg.ip
           /\ FetchedAt(Cpu, 0) = 205
           /\ FetchedAt(Cpu, 1) = 22
           /\ reg.cs = last.reg.cs
           /\ reg.sp = last.reg.sp
           /\ reg.ax = last.reg.ax
           /\ biosKeyBuffer = <<>>

\* the extended read (AH=10h) has halted on an empty buffer after an
\* earlier read returned a key
C9_Halted ==
    /\ IsInt(last, 22)
    /\ Hi(last.reg.ax) = 16
    /\ last.keys = <<>>
    /\ halted
    /\ Len(delivered) > 0

\* C10: the step after the pump woke a key_wait halt is the same blocking
\* read, and it returns the key the pump pushed (scan code in AH, ASCII in
\* AL); the keys the blocking reads return are the keys pushed, in the
\* order pushed, each once
C10_Fifo ==
    /\ (last.op = "step" /\ last.afterWake)
          => /\ IsInt(last, 22)
             /\ Hi(last.reg.ax) \in {0, 16}
             /\ ~halted
             /\ reg.ax = last.wakeKey
             /\ reg.ip = (last.reg.ip + 2) % 65536
    /\ pushed = delivered \o biosKeyBuffer

\* two different keys have been returned, the second one after a wake
C10_Delivered ==
    /\ last.op = "step"
    /\ last.afterWake
    /\ Len(delivered) >= 2
    /\ delivered[1] # delivered[2]

(***************************************************************************)
(* Properties of single instructions (specification SpecInstr).  "last"    *)
(* holds the registers and the memory before the step just taken, its      *)
(* first two bytes (opcode, vec) and the three steps before it (hist).     *)
(***************************************************************************)
Stepped(l) == l.op = "step"

\* a string opcode under a repeat prefix F2 or F3
Repeated(l, ops) == Stepped(l) /\ l.opcode \in {242, 243} /\ l.vec \in ops

\* +1/-1 by the direction flag before the step, doubled for a word opcode
StrideOf(l) ==
    (IF FlagOf(l.reg.flags, FLAGS.DF) THEN -1 ELSE 1) * (IF l.vec % 2 = 0 THEN 1 ELSE 2)

\* v moved by k strides, modulo 2^16
MovedBy(v, k, l) == (v + k * StrideOf(l)) % 65536

UsesSI(op) == op \in {164, 165, 166, 167, 172, 173}

UsesDI(op) == op \in {164, 165, 166, 167, 170, 171, 174, 175}

\* C11: after MOVS, LODS or STOS under either repeat prefix, whatever ZF
\* was, CX = 0 and SI and/or DI have moved by initial-CX strides in the
\* direction DF selects
C11_RepMove ==
    Repeated(last, {164, 165, 170, 171, 172, 173}) =>
        /\ reg.cx = 0
        /\ UsesSI(last.vec) => reg.si = MovedBy(last.reg.si, last.reg.cx, last)
        /\ UsesDI(last.vec) => reg.di = MovedBy(last.reg.di, last.reg.cx, last)

\* the machine before the step, for reading its memory
Before(l) == [reg |-> l.reg, mem |-> l.mem, segOverride |-> <<>>, repPrefix |-> ""]

BitsOf(op) == IF op % 2 = 0 THEN 8 ELSE 16

\* a two's-complement reading of v at a width
AsSigned(bits, v) == IF v >= 2 ^ (bits - 1) THEN v - 2 ^ bits ELSE v

EvenOnes(v) == Cardinality({i \in 0..7 : (v \div (2 ^ i)) % 2 = 1}) % 2 = 0

\* the six arithmetic flags of a result, given its carry, overflow and
\* auxiliary carry
RefFlags(bits, res, cf, of, af) ==
    [CF |-> cf, OF |-> of, AF |-> af, ZF |-> res = 0,
     SF |-> res >= 2 ^ (bits - 1), PF |-> EvenOnes(res % 256)]

\* a + b + cin at a width, with the 8086 flag rules
RefAdd(bits, a, b, cin) ==
    [r |-> (a + b + cin) % (2 ^ bits),
     f |-> RefFlags(bits, (a + b + cin) % (2 ^ bits),
                    a + b + cin >= 2 ^ bits,
                    \/ AsSigned(bits, a) + AsSigned(bits, b) + cin >= 2 ^ (bits - 1)
                    \/ AsSigned(bits, a) + AsSigned(bits, b) + cin < -(2 ^ (bits - 1)),
                    (a % 16) + (b % 16) + cin >= 16)]

\* a - b - cin at a width, with the 8086 flag rules
RefSub(bits, a, b, cin) ==
    [r |-> (a - b - cin) % (2 ^ bits),
     f |-> RefFlags(bits, (a - b - cin) % (2 ^ bits),
                    a < b + cin,
                    \/ AsSigned(bits, a) - AsSigned(bits, b) - cin >= 2 ^ (bits - 1)
                    \/ AsSigned(bits, a) - AsSigned(bits, b) - cin < -(2 ^ (bits - 1)),
                    (a % 16) < (b % 16) + cin)]

\* a flags word shows the six arithmetic flags f
FlagsAre(flags, f) ==
    /\ FlagOf(flags, FLAGS.CF) = f.CF
    /\ FlagOf(flags, FLAGS.OF) = f.OF
    /\ FlagOf(flags, FLAGS.AF) = f.AF
    /\ FlagOf(flags, FLAGS.ZF) = f.ZF
    /\ FlagOf(flags, FLAGS.SF) = f.SF
    /\ FlagOf(flags, FLAGS.PF) = f.PF

CompareOps == {166, 167, 174, 175}

ItemAt(l, seg, off) ==
    IF l.vec % 2 = 0 THEN Read8(Before(l), Segmented(seg, off))
    ELSE Read16(Before(l), Segmented(seg, off))

\* the operands of the i-th comparison: DS:SI (CMPS) or AL/AX (SCAS)
\* against ES:DI
LeftOf(l, i) ==
    IF l.vec \in {166, 167} THEN ItemAt(l, l.reg.ds, MovedBy(l.reg.si, i - 1, l))
    ELSE IF l.vec = 174 THEN l.reg.ax % 256 ELSE l.reg.ax

RightOf(l, i) == ItemAt(l, l.reg.es, MovedBy(l.reg.di, i - 1, l))

\* ZF after the i-th comparison disagrees with the prefix
Disagrees(l, i) ==
    IF l.opcode = 243 THEN LeftOf(l, i) # RightOf(l, i)
    ELSE LeftOf(l, i) = RightOf(l, i)

\* the smallest i in 1..N whose ZF disagrees with the prefix, else N
Iterations(l) ==
    IF \E i \in 1..l.reg.cx : Disagrees(l, i)
    THEN CHOOSE i \in 1..l.reg.cx :
            Disagrees(l, i) /\ \A j \in 1..(i - 1) : ~Disagrees(l, j)
    ELSE l.reg.cx

\* C12: a repeated CMPS or SCAS with CX = N > 0 runs k iterations, k the
\* first iteration whose ZF disagrees with the prefix (else N); it ends
\* with CX = N - k, SI/DI moved by k strides and the flags of the k-th
\* comparison
C12_RepCompare ==
    (Repeated(last, CompareOps) /\ last.reg.cx > 0) =>
        /\ reg.cx = last.reg.cx - Iterations(last)
        /\ UsesSI(last.vec) => reg.si = MovedBy(last.reg.si, Iterations(last), last)
        /\ reg.di = MovedBy(last.reg.di, Iterations(last), last)
        /\ FlagsAre(reg.flags,
                    RefSub(BitsOf(last.vec), LeftOf(last, Iterations(last)),
                           RightOf(last, Iterations(last)), 0).f)

\* a repeated comparison that stopped at its second iteration of three
C12_StoppedEarly ==
    /\ Repeated(last, CompareOps)
    /\ last.reg.cx = MaxCount
    /\ Iterations(last) = 2
    /\ reg.cx = MaxCount - 2

StringOps == {164, 165, 166, 167, 170, 171, 172, 173, 174, 175}

\* C13: a repeated string instruction executed with CX = 0 writes no
\* memory byte and changes no register or flag; only IP advances, past
\* the prefix and the opcode
C13_RepZero ==
    (Repeated(last, StringOps) /\ last.reg.cx = 0) =>
        /\ mem = last.mem
        /\ reg = [last.reg EXCEPT !.ip = (@ + 2) % 65536]
        /\ ~halted

\* REP MOVSB was executed with CX = 0
C13_NoOp ==
    /\ Stepped(last) /\ last.opcode = 243 /\ last.vec = 164
    /\ last.reg.cx = 0
    /\ reg.ip = (last.reg.ip + 2) % 65536

\* the /digit of a group opcode's ModRM byte
Digit(l) == (l.vec \div 8) % 8

\* DIV (/6) or IDIV (/7) of the F6/F7 group on a register operand
Divides(l) ==
    Stepped(l) /\ l.opcode \in {246, 247} /\ RegForm(l.vec) /\ Digit(l) \in {6, 7}

DivisorOf(l) == GetReg(Before(l), BitsOf(l.opcode), l.vec % 8)

Mag(v) == IF v < 0 THEN -v ELSE v

\* the unsigned quotient of AX (or DX:AX) by d fits the quotient register
UnsignedFits(l, d) ==
    /\ d # 0
    /\ IF l.opcode = 246 THEN l.reg.ax < d * 256 ELSE l.reg.dx < d

\* the signed dividend: AX, or DX:AX
SignedDividend(l) ==
    IF l.opcode = 246 THEN AsSigned(16, l.reg.ax)
    ELSE AsSigned(16, l.reg.dx) * 65536 + l.reg.ax

\* the quotient of n by d, truncated toward zero, lies in
\* -2^(bits-1) .. 2^(bits-1) - 1
SignedFits(bits, n, d) ==
    /\ d # 0
    /\ IF (n < 0) = (d < 0) THEN Mag(n) < Mag(d) * (2 ^ (bits - 1))
       ELSE Mag(n) < Mag(d) * (2 ^ (bits - 1) + 1)

Representable(l) ==
    IF Digit(l) = 6 THEN UnsignedFits(l, DivisorOf(l))
    ELSE SignedFits(BitsOf(l.opcode), SignedDividend(l),
                    AsSigned(BitsOf(l.opcode), DivisorOf(l)))

\* BOUND r16,[reg] with the register outside the signed bounds in memory
BoundViolated(l) ==
    /\ Stepped(l) /\ l.opcode = 98
    /\ \/ AsSigned(16, GetReg16(Before(l), Digit(l)))
            < AsSigned(16, Read16(Before(l), CalcEA(Before(l), l.vec % 8)))
       \/ AsSigned(16, GetReg16(Before(l), Digit(l)))
            > AsSigned(16, Read16(Before(l), CalcEA(Before(l), l.vec % 8) + 2))

\* CS:IP now holds the entry of a vector
AtVector(vector) ==
    /\ reg.ip = Read16(Cpu, vector * 4)
    /\ reg.cs = Read16(Cpu, vector * 4 + 2)

\* flags and CS of the machine before the step are on the stack above a
\* third word, and SP is 6 lower
FramePushed(l) ==
    /\ reg.sp = (l.reg.sp - 6) % 65536
    /\ Read16(Cpu, Segmented(reg.ss, reg.sp + 4)) = l.reg.flags
    /\ Read16(Cpu, Segmented(reg.ss, reg.sp + 2)) = l.reg.cs

\* C14: DIV/IDIV by zero or with an unrepresentable quotient enters
\* interrupt 0, and a BOUND violation interrupt 5, as the hardware does:
\* flags, CS, IP pushed (SP lower by 6), CS:IP from the vector's entry,
\* not halted
C14_Faults ==
    /\ (Divides(last) /\ ~Representable(last)) =>
            FramePushed(last) /\ AtVector(0) /\ ~halted
    /\ BoundViolated(last) =>
            FramePushed(last) /\ AtVector(5) /\ ~halted

\* INT n, INT3, or INTO with OF set
Interrupts(l) ==
    /\ Stepped(l)
    /\ \/ l.opcode \in {204, 205}
       \/ l.opcode = 206 /\ FlagOf(l.reg.flags, FLAGS.OF)

VectorOf(l) == IF l.opcode = 205 THEN l.vec ELSE IF l.opcode = 204 THEN 3 ELSE 4

\* the address after the interrupt instruction
ReturnIp(l) == (l.reg.ip + (IF l.opcode = 205 THEN 2 ELSE 1)) % 65536

\* C15: INT n, INT3 and INTO with OF=1 push flags, CS and the return IP
\* (SP lower by 6) and leave IF and TF cleared; with no synthetic handler
\* for the vector CS:IP is then loaded from its entry.  INTO with OF=0
\* changes nothing but IP.
C15_SoftInt ==
    /\ (Interrupts(last) /\ VectorOf(last) \notin Registered) =>
            /\ FramePushed(last)
            /\ Read16(Cpu, Segmented(reg.ss, reg.sp)) = ReturnIp(last)
            /\ ~FlagOf(reg.flags, FLAGS.IF_)
            /\ ~FlagOf(reg.flags, FLAGS.TF)
            /\ AtVector(VectorOf(last))
    /\ (Stepped(last) /\ last.opcode = 206 /\ ~FlagOf(last.reg.flags, FLAGS.OF)) =>
            /\ reg = [last.reg EXCEPT !.ip = (@ + 1) % 65536]
            /\ mem = last.mem

\* IRET executed right after PUSHF; PUSH CS; PUSH imm16
AfterPushes(l) ==
    /\ Stepped(l) /\ l.opcode = 207
    /\ Len(l.hist) = 3
    /\ l.hist[1].opcode = 156
    /\ l.hist[2].opcode = 14
    /\ l.hist[3].opcode = 104

\* the immediate of the PUSH imm16
PushedIp(l) == Read16(Before(l), Segmented(l.hist[3].reg.cs, l.hist[3].reg.ip + 1))

\* flags equal v in the defined bits, with bit 1 set and the other
\* reserved bits clear
Normalised(flags, v) ==
    /\ \A i \in {0, 2, 4, 6, 7, 8, 9, 10, 11} :
            (flags \div (2 ^ i)) % 2 = (v \div (2 ^ i)) % 2
    /\ (flags \div 2) % 2 = 1
    /\ \A i \in {3, 5, 12, 13, 14, 15} : (flags \div (2 ^ i)) % 2 = 0

\* C16: IRET right after PUSHF; PUSH CS; PUSH ip sets IP and CS to the
\* pushed values and the flags to the pushed flags with the reserved bits
\* normalised, and SP is back at its value before the three pushes
C16_Iret ==
    AfterPushes(last) =>
        /\ reg.ip = PushedIp(last)
        /\ reg.cs = last.hist[2].reg.cs
        /\ Normalised(reg.flags, last.hist[1].reg.flags)
        /\ reg.sp = last.hist[1].reg.sp

\* such an IRET taken with CF and DF set, landing on the HLT
C16_Returned ==
    /\ AfterPushes(last)
    /\ FlagOf(last.hist[1].reg.flags, FLAGS.CF)
    /\ FlagOf(last.hist[1].reg.flags, FLAGS.DF)
    /\ reg.ip = 265
    /\ reg.sp = 65532

\* C17: in every reachable state bit 1 of the flags word reads as 1
C17_Bit1 == (reg.flags \div 2) % 2 = 1

\* ADD, ADC, SBB, SUB, CMP of a register to a register; INC, DEC of one
Adds(l) == Stepped(l) /\ l.opcode \in {0, 1, 16, 17} /\ RegForm(l.vec)

Subtracts(l) == Stepped(l) /\ l.opcode \in {24, 25, 40, 41, 56, 57} /\ RegForm(l.vec)

Steps1(l) ==
    /\ Stepped(l)
    /\ \/ l.opcode \in 64..79
       \/ l.opcode \in {254, 255} /\ RegForm(l.vec) /\ Digit(l) \in {0, 1}

\* the carry ADC and SBB take in
CarryOf(l) ==
    IF l.opcode \in {16, 17, 24, 25} /\ FlagOf(l.reg.flags, FLAGS.CF) THEN 1 ELSE 0

\* destination and source of the two-operand forms, before the step
DestOf(l) == GetReg(Before(l), BitsOf(l.opcode), l.vec % 8)

SourceOf(l) == GetReg(Before(l), BitsOf(l.opcode), Digit(l))

\* the register INC/DEC works on, its width, and whether it increments
CountedReg(l) == IF l.opcode < 80 THEN l.opcode % 8 ELSE l.vec % 8

CountedBits(l) == IF l.opcode = 254 THEN 8 ELSE 16

Increments(l) == IF l.opcode < 80 THEN l.opcode < 72 ELSE Digit(l) = 0

\* TF, IF and DF are as before the step
ControlKept(l) ==
    \A bit \in {FLAGS.TF, FLAGS.IF_, FLAGS.DF} :
        FlagOf(reg.flags, bit) = FlagOf(l.reg.flags, bit)

\* C18: ADD, ADC, SUB, SBB and CMP give the result modulo the operand
\* width and CF, OF, AF, ZF, SF, PF by the 8086 rules, for 8 and 16 bits
\* and either carry-in; INC and DEC do the same but leave CF as it was
C18_Arith ==
    /\ Adds(last) =>
            /\ GetReg(Cpu, BitsOf(last.opcode), last.vec % 8)
                    = RefAdd(BitsOf(last.opcode), DestOf(last), SourceOf(last),
                             CarryOf(last)).r
            /\ FlagsAre(reg.flags,
                        RefAdd(BitsOf(last.opcode), DestOf(last), SourceOf(last),
                               CarryOf(last)).f)
            /\ ControlKept(last)
    /\ Subtracts(last) =>
            /\ GetReg(Cpu, BitsOf(last.opcode), last.vec % 8)
                    = IF last.opcode \in {56, 57} THEN DestOf(last)
                      ELSE RefSub(BitsOf(last.opcode), DestOf(last), SourceOf(last),
                                  CarryOf(last)).r
            /\ FlagsAre(reg.flags,
                        RefSub(BitsOf(last.opcode), DestOf(last), SourceOf(last),
                               CarryOf(last)).f)
            /\ ControlKept(last)
    /\ Steps1(last) =>
            /\ GetReg(Cpu, CountedBits(last), CountedReg(last))
                    = IF Increments(last)
                      THEN RefAdd(CountedBits(last),
                                  GetReg(Before(last), CountedBits(last), CountedReg(last)),
                                  1, 0).r
                      ELSE RefSub(CountedBits(last),
                                  GetReg(Before(last), CountedBits(last), CountedReg(last)),
                                  1, 0).r
            /\ FlagsAre(reg.flags,
                    [(IF Increments(last)
                      THEN RefAdd(CountedBits(last),
                                  GetReg(Before(last), CountedBits(last), CountedReg(last)),
                                  1, 0).f
                      ELSE RefSub(CountedBits(last),
                                  GetReg(Before(last), CountedBits(last), CountedReg(last)),
                                  1, 0).f)
                        EXCEPT !.CF = FlagOf(last.reg.flags, FLAGS.CF)])
            /\ ControlKept(last)

\* ADC AX,BX of 7FFFh and 0 with the carry set: 8000h, OF and AF set, CF clear
C18_CarryIn ==
    /\ Adds(last) /\ last.opcode = 17
    /\ FlagOf(last.reg.flags, FLAGS.CF)
    /\ last.reg.ax = 32767 /\ last.reg.bx = 0
    /\ reg.ax = 32768
    /\ FlagOf(reg.flags, FLAGS.OF)
    /\ ~FlagOf(reg.flags, FLAGS.CF)

\* MUL (/4) or IMUL (/5) of the F7 group on a register operand
Multiplies(l) ==
    Stepped(l) /\ l.opcode = 247 /\ RegForm(l.vec) /\ Digit(l) \in {4, 5}

\* the unsigned product of two 16-bit values from its byte-by-byte partial
\* products: the middle term, the low 17 bits, and the two halves
MidTerm(a, b) == (a \div 256) * (b % 256) + (a % 256) * (b \div 256)

LowTerm(a, b) == (a % 256) * (b % 256) + (MidTerm(a, b) % 256) * 256

ProductLow(a, b) == LowTerm(a, b) % 65536

ProductHigh(a, b) ==
    (a \div 256) * (b \div 256) + MidTerm(a, b) \div 256 + LowTerm(a, b) \div 65536

SignedProduct(a, b) == AsSigned(16, a) * AsSigned(16, b)

\* C19: MUL r/m16 leaves in DX:AX the unsigned 32-bit product of AX and
\* the operand, IMUL r/m16 the two's-complement signed product; CF = OF is
\* set exactly when the high half is not the zero- or sign-extension of
\* the low half
C19_Multiply ==
    /\ (Multiplies(last) /\ Digit(last) = 4) =>
            /\ reg.ax = ProductLow(last.reg.ax, DivisorOf(last))
            /\ reg.dx = ProductHigh(last.reg.ax, DivisorOf(last))
            /\ FlagOf(reg.flags, FLAGS.CF) = (reg.dx # 0)
            /\ FlagOf(reg.flags, FLAGS.OF) = (reg.dx # 0)
    /\ (Multiplies(last) /\ Digit(last) = 5) =>
            /\ reg.ax = SignedProduct(last.reg.ax, DivisorOf(last)) % 65536
            /\ reg.dx = (SignedProduct(last.reg.ax, DivisorOf(last)) \div 65536) % 65536
            /\ FlagOf(reg.flags, FLAGS.CF)
                    = (SignedProduct(last.reg.ax, DivisorOf(last)) \notin -32768..32767)
            /\ FlagOf(reg.flags, FLAGS.OF)
                    = (SignedProduct(last.reg.ax, DivisorOf(last)) \notin -32768..32767)

\* the quotient and remainder registers after the step: AL, AH or AX, DX
QuotientReg(l) == IF l.opcode = 246 THEN reg.ax % 256 ELSE reg.ax

RemainderReg(l) == IF l.opcode = 246 THEN reg.ax \div 256 ELSE reg.dx

UnsignedDividend(l) ==
    IF l.opcode = 246 THEN l.reg.ax ELSE l.reg.dx * 65536 + l.reg.ax

\* execution went on after the two bytes of the instruction
WentOn(l) == reg.ip = (l.reg.ip + 2) % 65536 /\ reg.cs = l.reg.cs

\* q and r are the quotient truncated toward zero and its remainder
DividesAs(n, d, q, r) ==
    /\ n = q * d + r
    /\ Mag(r) < Mag(d)
    /\ r = 0 \/ (r < 0) = (n < 0)

Shifts(l) == Stepped(l) /\ l.opcode \in {192, 193, 208, 209, 210, 211}

\* the count as the instruction gives it: imm8, 1 or CL
CountOf(l) ==
    IF l.opcode \in {192, 193}
    THEN Read8(Before(l), Segmented(l.reg.cs, l.reg.ip + 2))
    ELSE IF l.opcode \in {208, 209} THEN 1 ELSE l.reg.cx % 256

MaskedCount(l) == CountOf(l) % 32

ShiftLength(l) == IF l.opcode \in {192, 193} THEN 3 ELSE 2

\* the operand after the step, and its two top bits
Shifted(l) == GetReg(Cpu, BitsOf(l.opcode), l.vec % 8)

TopOf(l, v) == v >= 2 ^ (BitsOf(l.opcode) - 1)

NextOf(l, v) == (v \div 2 ^ (BitsOf(l.opcode) - 2)) % 2 = 1

Carry(flags) == IF FlagOf(flags, FLAGS.CF) THEN 1 ELSE 0

\* the operand v moved by one place, by the operation /digit
ByOne(l, v) ==
    CASE Digit(l) \in {4, 6} -> (2 * v) % 2 ^ BitsOf(l.opcode)
      [] Digit(l) = 5 -> v \div 2
      [] Digit(l) = 7 -> v \div 2 + (IF TopOf(l, v) THEN 2 ^ (BitsOf(l.opcode) - 1) ELSE 0)
      [] Digit(l) = 0 -> ((2 * v) % 2 ^ BitsOf(l.opcode)) + (IF TopOf(l, v) THEN 1 ELSE 0)
      [] Digit(l) = 1 -> v \div 2 + (v % 2) * 2 ^ (BitsOf(l.opcode) - 1)
      [] Digit(l) = 2 -> ((2 * v) % 2 ^ BitsOf(l.opcode)) + Carry(l.reg.flags)
      [] OTHER -> v \div 2 + Carry(l.reg.flags) * 2 ^ (BitsOf(l.opcode) - 1)

\* a masked count of 0 changes nothing but IP; OF changes only for a masked
\* count of 1, which moves the operand by one place
CountRule(l) ==
    /\ MaskedCount(l) = 0 =>
            reg = [l.reg EXCEPT !.ip = (@ + ShiftLength(l)) % 65536]
    /\ MaskedCount(l) # 1 =>
            FlagOf(reg.flags, FLAGS.OF) = FlagOf(l.reg.flags, FLAGS.OF)
    /\ MaskedCount(l) = 1 => Shifted(l) = ByOne(l, DestOf(l))
    /\ mem = l.mem
    /\ ControlKept(l)

\* OF after a masked count of 1, for SHL/SAL, SHR and SAR
ShiftOverflow(l) ==
    CASE Digit(l) \in {4, 6} ->
            FlagOf(reg.flags, FLAGS.OF) =
                (TopOf(l, Shifted(l)) # FlagOf(reg.flags, FLAGS.CF))
      [] Digit(l) = 5 -> FlagOf(reg.flags, FLAGS.OF) = TopOf(l, DestOf(l))
      [] Digit(l) = 7 -> ~FlagOf(reg.flags, FLAGS.OF)
      [] OTHER -> TRUE

\* C21 as stated: shifts and rotates use the count masked to 5 bits, a
\* masked count of 0 leaves the operand and every flag unchanged, and OF
\* changes only for a masked count of 1, to (new top bit XOR CF) for
\* SHL/SAL, (CF XOR new top bit) for ROL, ROR, RCL and RCR, 0 for SAR and
\* the operand's old top bit for SHR
C21_ShiftCount ==
    Shifts(last) =>
        /\ CountRule(last)
        /\ MaskedCount(last) = 1 =>
              /\ ShiftOverflow(last)
              /\ Digit(last) \in 0..3 =>
                    FlagOf(reg.flags, FLAGS.OF) =
                        (FlagOf(reg.flags, FLAGS.CF) # TopOf(last, Shifted(last)))

\* C21 amended: as stated, except that for ROR and RCR the OF of a masked
\* count of 1 is (new top bit XOR the bit below it); for ROL and RCL it is
\* (CF XOR new top bit)
C21_ShiftCountAmended ==
    Shifts(last) =>
        /\ CountRule(last)
        /\ MaskedCount(last) = 1 =>
              /\ ShiftOverflow(last)
              /\ Digit(last) \in {0, 2} =>
                    FlagOf(reg.flags, FLAGS.OF) =
                        (FlagOf(reg.flags, FLAGS.CF) # TopOf(last, Shifted(last)))
              /\ Digit(last) \in {1, 3} =>
                    FlagOf(reg.flags, FLAGS.OF) =
                        (TopOf(last, Shifted(last)) # NextOf(last, Shifted(last)))

\* ROR AX,CL with CL = 33 (masked: 1) turned 80C1h into C060h with CF = 1
\* and OF = 0
C21_RorByOne ==
    /\ Shifts(last) /\ last.opcode = 211 /\ Digit(last) = 1
    /\ CountOf(last) = 33
    /\ DestOf(last) = 32961
    /\ reg.ax = 49248
    /\ FlagOf(reg.flags, FLAGS.CF)
    /\ ~FlagOf(reg.flags, FLAGS.OF)

(***************************************************************************)
(* Claims about the prefixes, checked under SpecPrefix.  last.left is the  *)
(* pair <<segOverride, repPrefix>> the instruction before left behind,     *)
(* last.entry the pair _step() found when step() called it.                *)
(***************************************************************************)
NoPrefix == <<<<>>, "">>

\* a string instruction with no prefix byte before it
BareString(l) == Stepped(l) /\ l.opcode \in StringOps

\* C22: a segment-override or repeat prefix affects only the instruction it
\* precedes: every top-level instruction starts with both prefix fields
\* empty, whatever the instruction before it was, so that a string
\* instruction without a prefix runs once and leaves CX alone
C22_PrefixScope ==
    Stepped(last) =>
        /\ last.entry = NoPrefix
        /\ BareString(last) =>
              /\ reg.cx = last.reg.cx
              /\ reg.ip = (last.reg.ip + 1) % 65536
              /\ last.opcode \in {164, 165} =>
                    /\ reg.si = MovedBy(last.reg.si, 1, [last EXCEPT !.vec = last.opcode])
                    /\ reg.di = MovedBy(last.reg.di, 1, [last EXCEPT !.vec = last.opcode])

\* MOVSB ran once with CX = 2 right after REP NOP had left repPrefix set
C22_AfterRepNop ==
    /\ BareString(last) /\ last.opcode = 164
    /\ last.left[2] = "REP"
    /\ last.reg.cx = 2 /\ reg.cx = 2
    /\ reg.si = (last.reg.si + 1) % 65536

(***************************************************************************)
(* Claims about format, deleteEntry, renameEntry and mkdir, checked under  *)
(* SpecFS.                                                                 *)
(***************************************************************************)
FatSectors == FAT1_START..(FAT1_START + 2 * SECTORS_PER_FAT - 1)

\* C23: after format(), whatever the disk held before, sector 0 and every
\* FAT sector are those of format() on a blank store, each FAT starts
\* F0 FF FF with every other entry 0, the root directory is empty, and a
\* second format() changes nothing
C23_FormatIdempotent ==
    fsLast.op = "format" =>
        /\ \A s \in {0} \cup FatSectors : Sec(Disk, s) = Sec(FreshDisk, s)
        /\ \A s \in FatSectors :
              Sec(Disk, s) = IF s \in {FAT1_START, FAT2_START} THEN Array(FreshFat)
                             ELSE Array(ZeroSector)
        /\ Len(EnumEntries(Disk, RootSecs)) = 0
        /\ \A i \in 1..ROOT_SECTORS : Sec(Disk, RootSecs[i]) = Array(ZeroSector)
        /\ Format(Disk) = Disk

\* format() has run on a disk that held files
C23_Reformatted ==
    /\ fsLast.op = "format"
    /\ ~fsLast.fresh
    /\ nops = 2
    /\ R8(Disk, 0, 0) = 235


\* the disk the step leaves
DiskNext == [cache |-> cache', dirty |-> dirty', store |-> store']

\* the sectors either disk has ever held: every other sector reads as zeros
Held(d, e) == DOMAIN d.cache \cup DOMAIN d.store \cup DOMAIN e.cache \cup DOMAIN e.store

SameDisk(d, e) == \A s \in Held(d, e) : Sec(d, s) = Sec(e, s)

SameFat(d, e) == \A s \in FatSectors : Sec(d, s) = Sec(e, s)

\* every byte outside the FATs is the same, except bytes off..off+n-1 of sector sec
SameBut(d, e, sec, off, n) ==
    \A s \in Held(d, e) \ FatSectors :
        IF s = sec
        THEN \A o \in 0..511 : (o >= off /\ o < off + n) \/ R8(d, s, o) = R8(e, s, o)
        ELSE Sec(d, s) = Sec(e, s)

\* slot k of the directory holds a live entry: in use, not a long-name slot,
\* and before the end-of-directory mark
LiveAt(d, secs, k) ==
    /\ R8(d, secs[(k \div 16) + 1], (k % 16) * 32) \notin {0, 229}
    /\ R8(d, secs[(k \div 16) + 1], (k % 16) * 32 + 11) # 15
    /\ \A j \in 0..(k - 1) : R8(d, secs[(j \div 16) + 1], (j % 16) * 32) # 0

\* the live slots of the directory whose name is the given one, letter case apart
Matching(d, secs, name) ==
    {k \in 0..(16 * Len(secs) - 1) :
        /\ LiveAt(d, secs, k)
        /\ SameName(ReadEntry(d, secs[(k \div 16) + 1], k % 16).name, name)}

SetOf(seq) == {seq[i] : i \in 1..Len(seq)}

\* deleteEntry(l.parts, l.name) returned l.ret and took disk d to disk e
Deleted(d, e, l) ==
    Let(ResolveDirSectors(d, l.parts), LAMBDA secs :
    Let(Matching(d, secs, l.name), LAMBDA hits :
        /\ l.ret \in {"true", "false"}
        /\ l.ret = "true" <=> hits # {}
        /\ l.ret = "false" => SameDisk(d, e)
        /\ l.ret = "true" =>
              \E k \in hits :
                 Let(SetOf(ChainOf(d, R16(d, secs[(k \div 16) + 1], (k % 16) * 32 + 26))),
                     LAMBDA chain :
                        /\ R8(e, secs[(k \div 16) + 1], (k % 16) * 32) = 229
                        /\ \A c \in chain : GetFAT(e, c) = 0
                        /\ \A c \in (0..(MaxCluster - 1)) \ chain :
                              GetFAT(e, c) = GetFAT(d, c)
                        /\ SameBut(d, e, secs[(k \div 16) + 1], (k % 16) * 32, 1))))

\* C24: deleteEntry(path, name) returns true exactly when the directory
\* holds a live entry with that name, letter case apart; on true the slot's
\* first byte is 0xE5, every cluster of the entry's chain has FAT value 0
\* and no other FAT entry or directory slot has changed; on false the disk
\* is unchanged
C24_DeleteEntry ==
    [][fsLast'.op = "deleteEntry" => Deleted(Disk, DiskNext, fsLast')]_vars

\* "b.bin" was deleted from D, where it is stored as B.BIN with one cluster
C24_DeletedLower ==
    /\ fsLast.op = "deleteEntry"
    /\ fsLast.ret = "true"
    /\ fsLast.parts = <<NameD>>
    /\ fsLast.name = NameB
    /\ Matching(Disk, ResolveDirSectors(Disk, <<NameD>>), NameB) = {}
    /\ R8(Disk, ResolveDirSectors(Disk, <<NameD>>)[1], 32) = 229


\* renameEntry(l.parts, l.name, l.name2) returned l.ret and took disk d to disk e
Renamed(d, e, l) ==
    Let(ResolveDirSectors(d, l.parts), LAMBDA secs :
    Let(Matching(d, secs, l.name), LAMBDA hits :
        /\ l.ret \in {"true", "false"}
        /\ hits = {} => l.ret = "false" /\ SameDisk(d, e)
        /\ l.ret = "false" => SameDisk(d, e)
        /\ l.ret = "true" =>
              \E k \in hits :
                 /\ SameFat(d, e)
                 /\ SameBut(d, e, secs[(k \div 16) + 1], (k % 16) * 32, 11)))

\* C25: renameEntry(path, oldName, newName) changes only the 11 name bytes
\* of the matched directory slot (both FATs, every data cluster and the
\* slot's attribute, time stamps, first cluster and size stay as they were);
\* it returns false and changes nothing when oldName is not found
C25_RenameEntry ==
    [][fsLast'.op = "renameEntry" => Renamed(Disk, DiskNext, fsLast')]_vars

\* the directory D was renamed to b.bin in the root: slot 0 now reads
\* "B       BIN" and is still a directory
C25_RenamedDir ==
    /\ fsLast.op = "renameEntry"
    /\ fsLast.ret = "true"
    /\ fsLast.parts = <<>>
    /\ fsLast.name = NameD
    /\ fsLast.name2 = NameB
    /\ [i \in 1..11 |-> R8(Disk, ROOT_START, i - 1)] = Array(Name83(NameB))
    /\ R8(Disk, ROOT_START, 11) = 16
    /\ Matching(Disk, RootSecs, NameD) = {}

\* mkdir(l.parts, l.name) ended with l.ret and took disk d to disk e
MadeDir(d, e, l) ==
    Let(ResolveDirSectors(d, l.parts), LAMBDA secs :
        Matching(d, secs, l.name) # {} => l.ret = "Already exists" /\ SameDisk(d, e))

\* C26: mkdir(path, name) fails with already-exists whenever the directory
\* holds a live entry, file or subdirectory, with the same name, letter case
\* apart, and on that failure no FAT entry, directory slot or data cluster
\* has changed
C26_MkdirExists ==
    [][fsLast'.op = "mkdir" => MadeDir(Disk, DiskNext, fsLast')]_vars

\* mkdir "b.bin" in D was refused because of the file B.BIN
C26_RefusedForFile ==
    /\ fsLast.op = "mkdir"
    /\ fsLast.ret = "Already exists"
    /\ fsLast.parts = <<NameD>>
    /\ fsLast.name = NameB
    /\ \E k \in Matching(Disk, ResolveDirSectors(Disk, <<NameD>>), NameB) :
          R8(Disk, ResolveDirSectors(Disk, <<NameD>>)[1], k * 32 + 11) = 32


(***************************************************************************)
(* Properties of the tick loop (specification SpecCPU).                    *)
(***************************************************************************)
\* the tick has found the program ended
Ended == running /\ halted /\ haltReason \in {"program_exit", "hlt"}

\* the interpreter waits for a key
KeyWait == running /\ halted /\ haltReason = "key_wait"

\* the key pump has cleared halted and no tick has run since
JustWoken == running /\ ~halted /\ last.op = "key" /\ last.woke

\* the step executes no instruction
NoInstruction ==
    /\ last'.op \in {"step", "throw"} => last' = last
    /\ reg' = reg
    /\ mem' = mem

\* every open file that was modified reads back from disk e as its buffer
WrittenBack(hs, e) ==
    \A h \in DOMAIN hs :
        (hs[h].modified /\ hs[h].hasBuf)
            => ReadFile(e, hs[h].dirParts, hs[h].name) = [found |-> TRUE, data |-> hs[h].buf]

\* C27: at a tick boundary, a session halted with reason program_exit or
\* hlt is torn down (running cleared, every modified open file written to
\* disk) and no instruction is stepped ever after; a session halted with
\* reason key_wait is not torn down and executes no instruction while it is
\* halted, and once the key pump has cleared halted the tick loop can step
\* it and the next thing the session does, further keys apart, is that step
C27_TickBoundary ==
    /\ [][Ended => (~running' /\ NoInstruction /\ dirty' = {}
                      /\ WrittenBack(handles, DiskNext))]_vars
    /\ [][~running => (~running' /\ NoInstruction)]_vars
    /\ [][KeyWait => (running' /\ NoInstruction)]_vars
    /\ [][(halted /\ ~halted') => (KeyWait /\ last'.op = "key")]_vars
    /\ [](JustWoken => ENABLED CpuStep)
    /\ [][(JustWoken /\ last'.op # "key")
             => (last'.op = "step" /\ last'.afterWake /\ reg' # reg)]_vars

\* a session that waited for a key, was woken, read the key and exited has
\* been torn down
C27_WaitedThenEnded ==
    /\ ~running
    /\ last.op = "end"
    /\ haltReason = "program_exit"
    /\ Len(delivered) = 1
    /\ Len(pushed) >= 1


\* C28: when a host exception is raised while the tick loop steps the
\* guest, in the first tick or in a later one, the session is torn down:
\* the running flag is cleared, no further tick runs, and _execCOM accepts a
\* new program (it refuses one while the running flag is set)
C28_Aborted == last.op = "throw" => (~running /\ tickLoop = "stopped")


\* the INT 19h whose chained INT 13h read succeeded: the host's handler is
\* installed, and sector 0 is a sector it reads
Booted(l) == l.op = "step" /\ IsInt(l, 25) /\ diskReadHandler

\* C29: after INT 19h with a successful chained INT 13h read, the 512
\* bytes of sector 0 are at 0000:7C00 and the next instruction is fetched
\* at CS:IP = 0000:7C00
C29_Bootstrap ==
    Booted(last) =>
        /\ \A i \in 0..511 : Read8(Cpu, 31744 + i) = Sec(Disk, 0)[i]
        /\ reg.cs = 0
        /\ reg.ip = 31744


(***************************************************************************)
(* Properties of the teletype output (specification SpecTty).              *)
(***************************************************************************)
\* the step being taken is INT 10h AH=0Eh with the cursor inside the grid
TeletypeStep ==
    /\ last'.op = "step"
    /\ last'.opcode = 205
    /\ last'.vec = 16
    /\ Hi(reg.ax) = 14
    /\ biosCursorRow \in 0..24
    /\ biosCursorCol \in 0..79

Printable(ch) == ch \notin {7, 8, 10, 13}

\* where the claim puts the cursor before any scrolling
TtyRow(row, col, ch) ==
    IF ch = 10 \/ (Printable(ch) /\ col = 79) THEN row + 1 ELSE row

TtyCol(row, col, ch) ==
    CASE ch = 8 -> IF col = 0 THEN 0 ELSE col - 1
      [] ch = 13 -> 0
      [] ch \in {7, 10} -> col
      [] OTHER -> IF col = 79 THEN 0 ELSE col + 1

\* byte k (0 character, 1 attribute) of cell (r, c) once the character has
\* been stored and before any scrolling
TtyStored(r, c, k) ==
    IF Printable(Lo(reg.ax)) /\ r = biosCursorRow /\ c = biosCursorCol
    THEN (IF k = 0 THEN Lo(reg.ax) ELSE 7)
    ELSE Read8(Cpu, 753664 + (r * 80 + c) * 2 + k)

\* C30: with the cursor inside the 80x25 grid, INT 10h AH=0Eh with AL=c:
\* 07h changes nothing; 08h decrements the column unless it is 0; 0Dh sets
\* the column to 0; 0Ah increments the row; any other c stores c and
\* attribute 07h in the cursor's cell and advances the column, wrapping to
\* column 0 of the next row after column 79; whenever the row would become
\* 25 the screen scrolls up one row, row 24 is filled with space/07h and the
\* cursor row stays 24
C30_Teletype ==
    [][TeletypeStep =>
        /\ biosCursorCol' = TtyCol(biosCursorRow, biosCursorCol, Lo(reg.ax))
        /\ biosCursorRow' = Min(24, TtyRow(biosCursorRow, biosCursorCol, Lo(reg.ax)))
        /\ \A r \in 0..24, c \in 0..79, k \in 0..1 :
              Read8([mem |-> mem'], 753664 + (r * 80 + c) * 2 + k)
                 = IF TtyRow(biosCursorRow, biosCursorCol, Lo(reg.ax)) < 25
                   THEN TtyStored(r, c, k)
                   ELSE IF r < 24 THEN TtyStored(r + 1, c, k)
                   ELSE IF k = 0 THEN 32 ELSE 7]_vars

\* "A" was printed at (24, 79): the screen has scrolled, A is at (23, 79),
\* the Y of row 24 is at (23, 3), row 24 is blank and the cursor is at (24, 0)
C30_WrappedAndScrolled ==
    /\ last.op = "step"
    /\ IsInt(last, 16)
    /\ last.reg.ax = 14 * 256 + 65
    /\ biosCursorRow = 24
    /\ biosCursorCol = 0
    /\ Read8(Cpu, 753664 + (23 * 80 + 79) * 2) = 65
    /\ Read8(Cpu, 753664 + (23 * 80 + 3) * 2) = 89
    /\ Read8(Cpu, 753664 + (0 * 80 + 5) * 2) = 88
    /\ \A c \in 0..79 : Read8(Cpu, 753664 + (24 * 80 + c) * 2) = 32

(***************************************************************************)
(* C31: the COM entry state and the return to the PSP.                     *)
(***************************************************************************)
\* the segment _execCOM builds the PSP in
PspSeg == 0

\* the step l was a near RET executed with the stack as the loader left it
TopLevelRet(l) == l.opcode = 195 /\ l.reg.ss = PspSeg /\ l.reg.sp = 65532

\* the step l fetched the INT 20h of PSP offset 0, right after a top-level RET
ExitAfterRet(l) ==
    /\ l.op = "step"
    /\ l.opcode = 205
    /\ l.reg.cs = PspSeg
    /\ l.reg.ip = 0
    /\ Len(l.hist) > 0
    /\ TopLevelRet(l.hist[Len(l.hist)])

\* C31: when the COM image has been loaded, CS = DS = ES = SS = the PSP
\* segment, IP = 0100h and the word at SS:SP is 0000h; a near RET at the
\* program's top level leaves CS:IP at PSP offset 0, where CD 20 stands, and
\* the step that follows halts the machine with haltReason "program_exit".
C31_ComEntry ==
    /\ last.op = "none" /\ running =>
          /\ reg.cs = PspSeg /\ reg.ds = PspSeg /\ reg.es = PspSeg /\ reg.ss = PspSeg
          /\ reg.ip = 256
          /\ Read16(Cpu, Segmented(reg.ss, reg.sp)) = 0
    /\ last.op = "step" /\ TopLevelRet(last) =>
          /\ reg.cs = PspSeg /\ reg.ip = 0
          /\ FetchedAt(Cpu, 0) = 205 /\ FetchedAt(Cpu, 1) = 32
    /\ ExitAfterRet(last) => halted /\ haltReason = "program_exit"

\* a program returned with RET and was ended by the INT 20h of the PSP
C31_ReturnedToExit == ExitAfterRet(last) /\ halted /\ haltReason = "program_exit"

(***************************************************************************)
(* C32: allocCluster() of the two builds.  The FAT12Disk class of          *)
(* src/dist/msdos.js is that of src/msdos.js except for the bound of the   *)
(* loops of allocCluster and freeClusters.                                 *)
(***************************************************************************)
\* Math.floor(SECTORS_PER_FAT*512*2/3): the entries a FAT has room for
DistMaxCluster == (SECTORS_PER_FAT * 512 * 2) \div 3

DistAllocCluster(d) ==
    IF \E c \in 2..(DistMaxCluster - 1) : GetFAT(d, c) = 0
    THEN CHOOSE c \in 2..(DistMaxCluster - 1) :
            GetFAT(d, c) = 0 /\ \A j \in 2..(c - 1) : GetFAT(d, j) # 0
    ELSE -1

DistFreeClusters(d) == Cardinality({c \in 2..(DistMaxCluster - 1) : GetFAT(d, c) = 0})

\* FAT entry c of the disk base once every free cluster in 2..k, those in
\* holes apart, has become a one-cluster chain: mkdir marks a cluster FFFh
\* before it looks for a slot, and keeps it marked when it then throws
\* 'Directory full'
FilledEntry(base, k, holes, c) ==
    IF c >= 2 /\ c <= k /\ c \notin holes /\ GetFAT(base, c) = 0 THEN 4095
    ELSE GetFAT(base, c)

\* byte g of that FAT: entries 2n and 2n+1 are packed into bytes 3n..3n+2
FilledByte(base, k, holes, g) ==
    LET e0 == FilledEntry(base, k, holes, 2 * (g \div 3))
        e1 == FilledEntry(base, k, holes, 2 * (g \div 3) + 1)
    IN  CASE g % 3 = 0 -> e0 % 256
          [] g % 3 = 1 -> (e0 \div 256) + 16 * (e1 % 16)
          [] OTHER -> e1 \div 16

\* the disk base with that FAT in both copies, flushed
FilledOn(base, k, holes) ==
    Flush([cache |-> [s \in FatSectors |->
                        Array([i \in 0..511 |->
                            FilledByte(base, k, holes,
                                       512 * ((s - FAT1_START) % SECTORS_PER_FAT) + i)])]
                     @@ base.cache,
           dirty |-> base.dirty \cup FatSectors,
           store |-> base.store])

\* the formatted disk with clusters 2..k allocated, those in holes apart
FilledDisk(k, holes) == FilledOn(FreshDisk, k, holes)

\* the last cluster allocated: none, one, those of BigDisk, all but two of the data area, the
\* whole data area, and beyond it up to the end of the FAT
AllocFills == {1, 2, 340, MaxCluster - 3, MaxCluster - 2, MaxCluster - 1, MaxCluster,
               DistMaxCluster - 2, DistMaxCluster - 1}

AllocHoles == {{}, {2}, {3, 340}, {341, MaxCluster - 1}, {MaxCluster}}

AllocInit ==
    /\ \E k \in AllocFills, h \in AllocHoles :
          \E d \in {FilledDisk(k, h)} :
              /\ cache = d.cache
              /\ dirty = d.dirty
              /\ store = d.store
    /\ fsLast = NoOp
    /\ nops = 0
    /\ CpuIdle

\* allocCluster() of src/msdos.js, with freeClusters() before it
AllocSrc ==
    /\ fsLast' = [op |-> "allocCluster", build |-> "src",
                  ret |-> AllocCluster(Disk), free |-> FreeClusters(Disk)]
    /\ UNCHANGED <<cache, dirty, store, nops>>
    /\ UNCHANGED cpuVars

\* allocCluster() of src/dist/msdos.js, with freeClusters() before it
AllocDist ==
    /\ fsLast' = [op |-> "allocCluster", build |-> "dist",
                  ret |-> DistAllocCluster(Disk), free |-> DistFreeClusters(Disk)]
    /\ UNCHANGED <<cache, dirty, store, nops>>
    /\ UNCHANGED cpuVars

\* the two allocCluster() on the disks above and on those mkdir() of
\* src/msdos.js makes of them
AllocNext == AllocSrc \/ AllocDist \/ FsMkdir

SpecAlloc == AllocInit /\ [][AllocNext]_vars

\* C32: in either build a cluster returned by allocCluster() lies in
\* 2..2848, and allocCluster() reports failure (-1) exactly when
\* freeClusters() of the same build is 0.
C32_AllocRange ==
    fsLast.op = "allocCluster" =>
        /\ fsLast.ret # -1 => fsLast.ret >= 2 /\ fsLast.ret < 2 + (TOTAL_SECTORS - DATA_START)
        /\ fsLast.ret = -1 <=> fsLast.free = 0

(***************************************************************************)
(* C33: the end-of-directory mark.                                         *)
(***************************************************************************)
\* the first byte of slot k of a directory
FirstByte(d, secs, k) == R8(d, secs[(k \div 16) + 1], (k % 16) * 32)

\* slot k is in use: neither never used (00h) nor deleted (E5h)
UsedSlot(d, secs, k) == FirstByte(d, secs, k) \notin {0, 229}

\* the sectors of the directories entered in the directory secs, wherever
\* in it their slots are
SubDirs(d, secs) ==
    {SectorsOf(ChainOf(d, ReadEntry(d, secs[(k \div 16) + 1], k % 16).cluster)) :
        k \in {j \in 0..(16 * Len(secs) - 1) :
                /\ UsedSlot(d, secs, j)
                /\ IsDirAttr(R8(d, secs[(j \div 16) + 1], (j % 16) * 32 + 11))}}

\* the directories of the disk: the root, and those entered at most
\* DirDepth levels below it
DirDepth == 2

RECURSIVE DirsBelow(_, _, _)
DirsBelow(d, dirs, depth) ==
    IF depth = 0 THEN dirs
    ELSE dirs \cup DirsBelow(d, UNION {SubDirs(d, secs) : secs \in dirs}, depth - 1)

AllDirs(d) == DirsBelow(d, {RootSecs}, DirDepth)

\* the first slot whose first byte is 00h, the slot count if there is none
EndOfDir(d, secs) ==
    IF \E k \in 0..(16 * Len(secs) - 1) : FirstByte(d, secs, k) = 0
    THEN CHOOSE k \in 0..(16 * Len(secs) - 1) :
            FirstByte(d, secs, k) = 0 /\ \A j \in 0..(k - 1) : FirstByte(d, secs, j) # 0
    ELSE 16 * Len(secs)

\* C33: in every directory of the disk, no slot after one whose first byte
\* is 00h is in use, so that an enumeration that stops at the first 00h
\* slot returns every live entry.
C33_EndOfDirectory ==
    \A secs \in AllDirs(Disk) :
        /\ \A k \in EndOfDir(Disk, secs)..(16 * Len(secs) - 1) : ~UsedSlot(Disk, secs, k)
        /\ Len(EnumEntries(Disk, secs))
              = Cardinality({k \in 0..(16 * Len(secs) - 1) :
                                /\ UsedSlot(Disk, secs, k)
                                /\ R8(Disk, secs[(k \div 16) + 1], (k % 16) * 32 + 11) # 15})

\* the first entry of the root was deleted and the entry after it is live:
\* E5h, a live slot, then the end mark
C33_DeletedBeforeLive ==
    /\ fsLast.op = "deleteEntry"
    /\ fsLast.ret = "true"
    /\ FirstByte(Disk, RootSecs, 0) = 229
    /\ UsedSlot(Disk, RootSecs, 1)
    /\ EndOfDir(Disk, RootSecs) = 2

(***************************************************************************)
(* C34: the cluster of a new subdirectory.                                 *)
(***************************************************************************)
\* slot k of the directory holds the entry of a directory with the name
DirSlot(d, secs, k, name) ==
    /\ UsedSlot(d, secs, k)
    /\ ReadEntry(d, secs[(k \div 16) + 1], k % 16).name = name
    /\ IsDirAttr(ReadEntry(d, secs[(k \div 16) + 1], k % 16).attr)

\* C34: after mkdir(parts, name) has succeeded, the cluster of the new
\* subdirectory holds the entries "." and ".." in its first two slots and
\* every slot after them is free.
C34_DotEntries ==
    fsLast.op = "mkdir" /\ fsLast.ret = "ok" =>
        Let(ResolveDirSectors(Disk, fsLast.parts \o <<fsLast.name>>), LAMBDA secs :
            /\ Len(secs) = 1
            /\ DirSlot(Disk, secs, 0, <<46>>)
            /\ DirSlot(Disk, secs, 1, <<46, 46>>)
            /\ \A k \in 2..15 : FirstByte(Disk, secs, k) = 0)

(***************************************************************************)
(* C35: a writeFile that fails.  The disks are WorkDisk with its free      *)
(* clusters used up, all of them, all but the last, all but the last two.  *)
(***************************************************************************)
FullHoles == {{}, {MaxCluster - 1}, {MaxCluster - 2, MaxCluster - 1}}

FullInit ==
    /\ \E h \in FullHoles :
          \E d \in {FilledOn(WorkDisk, MaxCluster - 1, h)} :
              /\ cache = d.cache
              /\ dirty = d.dirty
              /\ store = d.store
    /\ fsLast = NoOp
    /\ nops = 0
    /\ CpuIdle

SpecFull == FullInit /\ [][FsNext]_vars

\* writeFile(l.parts, l.name, ...) threw 'Disk full' or 'Directory full'
FailedWrite(l) == l.op = "writeFile" /\ l.ret \in {"Disk full", "Directory full"}

\* C35: a writeFile that fails with disk-full or directory-full leaves the
\* disk as it was: the file of that name reads as before, no FAT entry and
\* no other byte of the disk has changed, freeClusters() is the same.
C35_FailedWriteFile ==
    [][FailedWrite(fsLast') =>
          /\ ReadFile(DiskNext, fsLast'.parts, fsLast'.name)
                = ReadFile(Disk, fsLast'.parts, fsLast'.name)
          /\ SameFat(Disk, DiskNext)
          /\ FreeClusters(DiskNext) = FreeClusters(Disk)
          /\ SameDisk(Disk, DiskNext)]_vars

(***************************************************************************)
(* C36: no cluster is lost.                                                *)
(***************************************************************************)
\* the clusters of the chains of the live entries of a directory
ChainsIn(d, secs) ==
    Let(EnumEntries(d, secs), LAMBDA entries :
        UNION {SetOf(ChainOf(d, entries[i].cluster)) : i \in 1..Len(entries)})

\* the clusters reachable from the live entries of the disk
Reachable(d) == UNION {ChainsIn(d, secs) : secs \in AllDirs(d)}

\* the clusters of the data area whose FAT entry is not 0
InUse(d) == {c \in 2..(MaxCluster - 1) : GetFAT(d, c) # 0}

\* every cluster in use belongs to a live entry
Accounted(d) ==
    /\ InUse(d) \subseteq Reachable(d)
    /\ FreeClusters(d) + Cardinality(Reachable(d)) = MaxCluster - 2

\* the operation returned without throwing
Returned(l) ==
    l.ret \notin {"Directory not found", "Path not found", "Already exists",
                  "Disk full", "Directory full"}

\* C36: after operations that all return successfully, deleting or
\* overwriting a non-empty subdirectory included, every cluster of 2..2848
\* with a non-zero FAT entry is reachable from a live directory entry, and
\* freeClusters() plus the number of reachable clusters is 2847; that is,
\* an operation that returns successfully on such a disk leaves such a disk.
C36_NoLostCluster ==
    [][Accounted(Disk) /\ Returned(fsLast') => Accounted(DiskNext)]_vars

(***************************************************************************)
(* C37: names are unique in a directory.                                   *)
(***************************************************************************)
\* no two live entries of the directory have the same stored name, letter
\* case apart
UniqueIn(d, secs) ==
    Let(EnumEntries(d, secs), LAMBDA entries :
        \A i \in 1..Len(entries) : \A j \in (i + 1)..Len(entries) :
            ~SameName(entries[i].name, entries[j].name))

\* C37: whatever writeFile, mkdir, renameEntry and deleteEntry calls have
\* been made, no directory holds two live entries whose stored 8.3 names
\* are equal case-insensitively.
C37_UniqueNames == \A secs \in AllDirs(Disk) : UniqueIn(Disk, secs)

(***************************************************************************)
(* C38: the chains of the live entries.                                    *)
(***************************************************************************)
\* the live entries of the disk, each with its sector and slot
AllEntries(d) == UNION {SetOf(EnumEntries(d, secs)) : secs \in AllDirs(d)}

\* the walk "while (c >= 2 && c < 0xFF8) c = getFAT(c)" from c ends, and
\* visits no cluster twice
Acyclic(d, c) ==
    Let(ChainOf(d, c), LAMBDA chain :
        /\ Len(chain) < ChainBound
        /\ Cardinality(SetOf(chain)) = Len(chain))

\* C38: whatever operations have been made, those that failed part-way
\* included, the chain of every live entry ends without visiting a cluster
\* twice, and the chains of two live entries have no cluster in common.
C38_ChainsDisjoint ==
    Let(AllEntries(Disk), LAMBDA entries :
        /\ \A e \in entries : Acyclic(Disk, e.cluster)
        /\ \A e, f \in entries :
              e # f => SetOf(ChainOf(Disk, e.cluster)) \cap SetOf(ChainOf(Disk, f.cluster)) = {})

\* a writeFile has failed with 'Disk full' and left a cluster that is its
\* own successor, while live entries with chains exist
C38_LoopLeftBehind ==
    /\ fsLast.op = "writeFile"
    /\ fsLast.ret = "Disk full"
    /\ \E c \in 2..ChainBound : GetFAT(Disk, c) = c
    /\ \E e \in AllEntries(Disk) : Len(ChainOf(Disk, e.cluster)) > 0

(***************************************************************************)
(* C39: teletype output stays on the text screen.                          *)
(***************************************************************************)
\* the step being taken is INT 10h AH=0Eh, wherever the cursor is
TeletypeCall ==
    /\ last'.op = "step"
    /\ last'.opcode = 205
    /\ last'.vec = 16
    /\ Hi(reg.ax) = 14

\* the 4000 bytes of the 80x25 text screen, B8000h..B8F9Fh
TextScreen == VRAM_BASE..(VRAM_BASE + 3999)

\* the bytes the step has changed
Changed == {a \in DOMAIN mem' : Read8([mem |-> mem'], a) # Read8(Cpu, a)}

\* the three words the INT pushes, and the cursor bytes of the BIOS data area
FrameAndCursor == {Segmented(reg.ss, (reg.sp - k) % 65536) : k \in 1..6} \cup {1104, 1105}

\* C39: whatever set-cursor (AH=02h, any DH/DL) and teletype calls came
\* before, a teletype call writes its output inside the text screen
\* B8000h..B8F9Fh only, and leaves the cursor with 0 <= row <= 24 and
\* 0 <= column <= 79.
C39_TeletypeInScreen ==
    [][TeletypeCall =>
          /\ Changed \subseteq TextScreen \cup FrameAndCursor
          /\ biosCursorRow' \in 0..24
          /\ biosCursorCol' \in 0..79]_vars

(***************************************************************************)
(* C40: what loading a program leaves of installBIOS().                    *)
(***************************************************************************)
\* the linear address of the dummy IRET, F000:FF00
IretStub == Segmented(61440, 65280)

\* vector v points at the dummy IRET
PointsAtStub(c, v) == Read16(c, 4 * v) = 65280 /\ Read16(c, 4 * v + 2) = 61440

\* the vectors none of whose bytes the image or the stack word lies on
ClearOfImage(v) == \A k \in 0..3 : 4 * v + k \notin DOMAIN mem

\* C40: when a program has been loaded, every interrupt vector outside the
\* image still points at the BIOS IRET stub and the stub is still an IRET
\* (CFh), so that an interrupt on a vector without a synthetic handler
\* (INT 3) arrives at the stub.
C40_LoadKeepsVectors ==
    /\ last.op = "none" /\ running =>
          /\ \A v \in 0..255 : ClearOfImage(v) => PointsAtStub(Cpu, v)
          /\ Read8(Cpu, IretStub) = 207
    /\ last.op = "step" /\ last.opcode = 204 =>
          /\ Segmented(reg.cs, reg.ip) = IretStub
          /\ FetchedAt(Cpu, 0) = 207

====
